---- MODULE Spec2Model ----
(***************************************************************************)
(* Strategy execution and position lifecycle of the trading bot:           *)
(*   executor/strategy_manager.py  (StrategyManager, StrategyRunner)       *)
(*   executor/trader_executor.py   (position file, process_multiple_...)   *)
(*   executor/binance_api.py       (place_order and its retry decorator)   *)
(*   orchestrator.py               (main_loop, main)                       *)
(* Strings that the code takes apart or compares character by character    *)
(* (strategy names, parameter keys, identities) are sequences of           *)
(* one-character strings; all other strings are TLA+ strings.              *)
(***************************************************************************)
EXTENDS Integers, Sequences, FiniteSets, TLC

\* ------------------------------------------------------------------------
\* Bounds of the model
\* ------------------------------------------------------------------------
MaxThreads == 3      \* threads a manager client may create (SpecManager)
MaxCycles == 2       \* cycles of main_loop that are explored
MaxBatch == 2        \* decisions in one batch of the oracle
MaxSize == 2         \* largest order size, in lot steps

\* ------------------------------------------------------------------------
\* Strings as character sequences, ordered as Python orders str
\* ------------------------------------------------------------------------
Alphabet == <<"-", "0", "1", "2", "3", "4", "5", "6", "7", "8", "9", "_",
              "a", "b", "c", "d", "i", "m", "r", "s", "|">>

Ord(ch) == CHOOSE i \in 1..Len(Alphabet) : Alphabet[i] = ch

Min2(a, b) == IF a <= b THEN a ELSE b

\* s < t for Python str: first differing character decides, a proper
\* prefix is smaller.
StrLess(s, t) ==
    \E i \in 1..(Min2(Len(s), Len(t)) + 1) :
        /\ \A j \in 1..(i - 1) : s[j] = t[j]
        /\ \/ i = Len(s) + 1 /\ i <= Len(t)
           \/ i <= Len(s) /\ i <= Len(t) /\ Ord(s[i]) < Ord(t[i])

RECURSIVE Join(_, _)
Join(parts, sep) ==
    IF parts = <<>> THEN <<>>
    ELSE IF Len(parts) = 1 THEN parts[1]
    ELSE parts[1] \o sep \o Join(Tail(parts), sep)

\* str(v) of a parameter value: an int prints its decimal digits, a str
\* prints itself.
Digit(n) == Alphabet[n + 2]

RECURSIVE Digits(_)
Digits(n) == IF n < 10 THEN <<Digit(n)>> ELSE Digits(n \div 10) \o <<Digit(n % 10)>>

FormatValue(v) == IF v.t = "int" THEN Digits(v.v) ELSE v.v

IntV(n) == [t |-> "int", v |-> n]
StrV(s) == [t |-> "str", v |-> s]

\* A dict is the sequence of its (key, value) items in insertion order,
\* keys distinct.  sorted(items, key=kv[0]): stable insertion sort by key.
RECURSIVE InsertByKey(_, _)
InsertByKey(item, sorted) ==
    IF sorted = <<>> THEN <<item>>
    ELSE IF StrLess(item[1], sorted[1][1]) THEN <<item>> \o sorted
    ELSE <<sorted[1]>> \o InsertByKey(item, Tail(sorted))

RECURSIVE SortedItems(_)
SortedItems(items) ==
    IF items = <<>> THEN <<>>
    ELSE InsertByKey(items[Len(items)], SortedItems(SubSeq(items, 1, Len(items) - 1)))

ItemStr(kv) == kv[1] \o <<"-">> \o FormatValue(kv[2])

ParamStr(items) == Join([i \in 1..Len(items) |-> ItemStr(items[i])], <<"_">>)

\* mutant of make_strategy_id: the items are not sorted
make_strategy_id_unsorted(name, params) == name \o <<"|">> \o ParamStr(params)

make_strategy_id(name, params) == name \o <<"|">> \o ParamStr(SortedItems(params))

\* orchestrator.py line 184 builds the same key inline
InlineStrategyId(sname, sparams) == sname \o <<"|">> \o ParamStr(SortedItems(sparams))

\* ------------------------------------------------------------------------
\* State
\* ------------------------------------------------------------------------
VARIABLES
    active_strategies,  \* StrategyManager.active_strategies: sid -> thread id
    runners,            \* live StrategyRunner threads: thread id -> [sid, stop_event]
    nextTid,            \* id the next started thread gets
    lock,               \* StrategyManager.lock: "free" or the caller holding it
    mpc,                \* per caller: position inside a StrategyManager method
    marg,               \* per caller: arguments and locals of that method
    cyc,                \* main thread: position inside main_loop / main
    cycle_count,        \* main_loop: cycle_count
    now,                \* wall clock (datetime.now), in hours
    position_store,     \* records held by position_state.json
    current_pos,        \* main_loop: current_pos
    data_json,          \* main_loop: data_json
    decisions,          \* main_loop: decisions (the batch of this cycle)
    di,                 \* main_loop: decisions already taken by `for dec in decisions`
    direct_orders,      \* main_loop: direct_orders
    new_strategy_ids,   \* main_loop: new_strategy_ids
    new_position,       \* process_multiple_decisions: new_position
    pending,            \* process_multiple_decisions: decisions not yet handled
    lastOrder,          \* the place_order call of the decision handled last
    prev_strategy_ids,  \* history: identities reconciled by the previous cycle
    log,                \* the last message main_loop logged
    open_orders,        \* exchange: open orders of BTCUSDT
    cancel_requested,   \* exchange: order ids a cancel request was sent for
    gw,                 \* order_executor: position inside process_multiple_decisions
    lot,                \* place_order: quantity, LOT_SIZE step and quantity sent
    state_files,        \* strategy state files: file -> content
    sig,                \* signal workers: the last polling iteration
    events,             \* signal events emitted by the last polling iteration
    atr,                \* atr_stop.run_strategy: locals of the candle loop
    writer,             \* the save of a state file that is in progress
    wk,                 \* a signal worker thread and the caller that stops it
    chat                \* remote_control: chat_data and the last reply to the operator

mgrVars == <<active_strategies, runners, nextTid, lock, mpc, marg>>

orchVars == <<cyc, cycle_count, now, position_store, current_pos, data_json,
              decisions, di, direct_orders, new_strategy_ids, new_position,
              pending, lastOrder, prev_strategy_ids, log>>

exchVars == <<open_orders, cancel_requested>>

workerVars == <<state_files, sig, events, atr, writer, wk, chat>>

extVars == <<exchVars, gw, lot, workerVars>>

vars == <<mgrVars, orchVars, extVars>>

Callers == {"main", "aux"}

NoArg == [sid |-> <<>>, to_stop |-> {}, new_ids |-> {}, frame |-> "top"]

\* threads started and not yet terminated that run identity sid
LiveWorkers(sid) == {t \in DOMAIN runners : runners[t].sid = sid}

\* ------------------------------------------------------------------------
\* StrategyRunner (strategy_manager.py 22-59)
\* ------------------------------------------------------------------------
\* threading.Thread.start() of a fresh StrategyRunner for sid
StartThread(sid) == (nextTid :> [sid |-> sid, stop_event |-> FALSE]) @@ runners

\* run(): the loop ends once stop_event is set, then the thread terminates
RunnerExit(t) ==
    /\ t \in DOMAIN runners
    /\ runners[t].stop_event
    /\ runners' = [u \in DOMAIN runners \ {t} |-> runners[u]]
    /\ UNCHANGED <<active_strategies, nextTid, lock, mpc, marg, orchVars, extVars>>

\* runner.stop(); runner.join(timeout=5): the event is set; the join returns
\* either because the thread has terminated or because 5 s have passed
StopAndJoin(t, joined) ==
    IF t \notin DOMAIN runners THEN runners
    ELSE IF joined THEN [u \in DOMAIN runners \ {t} |-> runners[u]]
    ELSE [runners EXCEPT ![t].stop_event = TRUE]

\* del self.active_strategies[sid]
DelActive(sid) == [s \in DOMAIN active_strategies \ {sid} |-> active_strategies[s]]

\* ------------------------------------------------------------------------
\* StrategyManager (strategy_manager.py 63-129).  threading.Lock is not
\* reentrant: acquire blocks while the lock is held, whoever holds it.
\* ------------------------------------------------------------------------
Enter(c, pc, arg) ==
    /\ mpc' = [mpc EXCEPT ![c] = pc]
    /\ marg' = [marg EXCEPT ![c] = arg]

\* `with self.lock:` can be entered
LockFree(c) == lock = "free"

\* `with self.lock:` at the top of start_strategy, stop_strategy,
\* update_strategies and stop_all: the caller waits until the lock is free
BodyOf(pc) ==
    CASE pc = "start_acq" -> "start_body"
      [] pc = "stop_acq" -> "stop_body"
      [] pc = "upd_acq" -> "upd_body"
      [] pc = "sa_acq" -> "sa_loop"

acquire_lock(c) ==
    /\ mpc[c] \in {"start_acq", "stop_acq", "upd_acq", "sa_acq"}
    /\ LockFree(c)
    /\ lock' = c
    /\ mpc' = [mpc EXCEPT ![c] = BodyOf(mpc[c])]
    /\ UNCHANGED <<active_strategies, runners, nextTid, marg, orchVars, extVars>>

\* mutant of MayStart: start_strategy does not look at the registry
MayStartAlways(sid) == TRUE

\* start_strategy line 83: the registry has no runner for sid
MayStart(sid) == sid \notin DOMAIN active_strategies

start_strategy_body(c) ==
    /\ mpc[c] = "start_body"
    /\ IF MayStart(marg[c].sid)
       THEN /\ runners' = StartThread(marg[c].sid)
            /\ active_strategies' =
                   (marg[c].sid :> nextTid) @@ DelActive(marg[c].sid)
            /\ nextTid' = nextTid + 1
       ELSE UNCHANGED <<runners, active_strategies, nextTid>>
    /\ lock' = "free"
    /\ Enter(c, "idle", NoArg)
    /\ UNCHANGED <<orchVars, extVars>>

stop_strategy_body(c) ==
    /\ mpc[c] = "stop_body"
    /\ LET sid == marg[c].sid IN
       IF sid \notin DOMAIN active_strategies
       THEN UNCHANGED <<runners, active_strategies>>
       ELSE \E joined \in BOOLEAN :
               /\ runners' = StopAndJoin(active_strategies[sid], joined)
               /\ active_strategies' = DelActive(sid)
    /\ lock' = "free"
    /\ IF marg[c].frame = "upd"
       THEN Enter(c, "upd_loop", [marg[c] EXCEPT !.sid = <<>>])
       ELSE Enter(c, "idle", NoArg)
    /\ UNCHANGED <<nextTid, orchVars, extVars>>

\* update_strategies line 109
ToStop(new_ids) == {sid \in DOMAIN active_strategies : sid \notin new_ids}

update_strategies_body(c) ==
    /\ mpc[c] = "upd_body"
    /\ Enter(c, "upd_loop", [marg[c] EXCEPT !.to_stop = ToStop(marg[c].new_ids)])
    /\ UNCHANGED <<active_strategies, runners, nextTid, lock, orchVars, extVars>>

\* the for loop of update_strategies: each superfluous sid is handed to
\* stop_strategy while the lock is still held
update_strategies_loop(c) ==
    /\ mpc[c] = "upd_loop"
    /\ IF marg[c].to_stop = {}
       THEN /\ lock' = "free"
            /\ Enter(c, "idle", NoArg)
       ELSE \E sid \in marg[c].to_stop :
               /\ Enter(c, "stop_acq",
                        [marg[c] EXCEPT !.sid = sid,
                                        !.to_stop = marg[c].to_stop \ {sid},
                                        !.frame = "upd"])
               /\ UNCHANGED lock
    /\ UNCHANGED <<active_strategies, runners, nextTid, orchVars, extVars>>

stop_all_loop(c) ==
    /\ mpc[c] = "sa_loop"
    /\ IF DOMAIN active_strategies = {}
       THEN /\ lock' = "free"
            /\ Enter(c, "idle", NoArg)
            /\ UNCHANGED <<runners, active_strategies>>
       ELSE \E sid \in DOMAIN active_strategies, joined \in BOOLEAN :
               /\ runners' = StopAndJoin(active_strategies[sid], joined)
               /\ active_strategies' = DelActive(sid)
               /\ UNCHANGED <<lock, mpc, marg>>
    /\ UNCHANGED <<nextTid, orchVars, extVars>>

\* ------------------------------------------------------------------------
\* Inputs: strategy requests
\* ------------------------------------------------------------------------
NameRsi == <<"r", "s", "i">>
NameMacd == <<"m", "a", "c", "d">>
KeyA == <<"a">>
KeyB == <<"b">>

\* the same dict written in two key orders, and another dict
ParamsAB == <<<<KeyA, IntV(14)>>, <<KeyB, IntV(2)>>>>
ParamsBA == <<<<KeyB, IntV(2)>>, <<KeyA, IntV(14)>>>>
ParamsA == <<<<KeyA, IntV(14)>>>>

StrategyCalls == {<<NameRsi, ParamsAB>>, <<NameRsi, ParamsBA>>, <<NameMacd, ParamsA>>}

SidPool == {make_strategy_id(sc[1], sc[2]) : sc \in StrategyCalls}

\* ------------------------------------------------------------------------
\* Position records and the position file (trader_executor.py 15-95)
\* ------------------------------------------------------------------------
\* a datetime and its ISO-8601 string are different values
DateTime(h) == [k |-> "datetime", h |-> h]
IsoString(h) == [k |-> "iso", h |-> h]
NoTime == [k |-> "none", h |-> 0]

isoformat(ts) == IF ts.k = "datetime" THEN IsoString(ts.h) ELSE ts
fromisoformat(ts) == IF ts.k = "iso" THEN DateTime(ts.h) ELSE ts

\* Python None where a position dict is expected
NonePos == [side |-> "None", size |-> 0, entry_price |-> 0, timestamp |-> NoTime]

Position(side, size, price, ts) ==
    [side |-> side, size |-> size, entry_price |-> price, timestamp |-> ts]

\* save_position_state converts position["timestamp"] in place before the
\* dump: the caller's dict carries the string afterwards
Serialized(pos) == [pos EXCEPT !.timestamp = isoformat(pos.timestamp)]

\* mutant of WriteFile: the file is opened for appending
WriteFileAppend(store, pos) == store \cup {Serialized(pos)}

\* open(POSITION_STATE_FILE, "w"); json.dump: the file holds this record only
WriteFile(store, pos) == {Serialized(pos)}

\* os.remove if the file exists
RemoveFile(store) == {}

\* what the file holds when a write stopped after open(..., "w") had emptied
\* it: a document json.load cannot parse
CutOff == Position("", 0, 0, NoTime)

\* load_position_state: None without a file or when json.load fails,
\* else the record with its timestamp parsed back
load_position_state(store) ==
    IF Cardinality(store) # 1 \/ store = {CutOff} THEN NonePos
    ELSE LET rec == CHOOSE r \in store : TRUE
         IN [rec EXCEPT !.timestamp = fromisoformat(rec.timestamp)]

\* lines 194-199 / 252-256: save the position or delete the file
PersistOrRemove(store, pos) ==
    IF pos # NonePos THEN WriteFile(store, pos) ELSE RemoveFile(store)

TTL == 4

\* mutant of Expired: the boundary counts as expired
ExpiredInclusive(delta_hrs) == delta_hrs >= TTL

\* mutant of Expired: a later boundary
ExpiredLate(delta_hrs) == delta_hrs > TTL + 1

\* orchestrator.py line 101
Expired(delta_hrs) == delta_hrs > TTL

\* ------------------------------------------------------------------------
\* place_order (binance_api.py 49-106)
\* ------------------------------------------------------------------------
\* What the exchange does with one attempt:
\*   "api_error"   BinanceAPIException (re-raised, so tenacity retries)
\*   "other_error" any other exception of create_order (caught, returns None)
\*   "FILLED", "EXPIRED"  a response with that status
Outcomes == {"api_error", "other_error", "FILLED", "EXPIRED"}
Final == Outcomes \ {"api_error"}

ScriptLen == 3

\* what the exchange would answer to the 1st, 2nd, ... attempt; a script
\* ends with the first answer that is not a transient error
Scripts ==
    UNION {{s \in [1..n -> Outcomes] :
               /\ \A i \in 1..(n - 1) : s[i] = "api_error"
               /\ s[n] \in Final \/ n = ScriptLen}
           : n \in 1..ScriptLen}

\* stop_after_attempt(2)
RetryAttempts == 2

Raised(n) == [kind |-> "raise", status |-> "BinanceAPIException", attempts |-> n]
Returned(status, n) == [kind |-> "resp", status |-> status, attempts |-> n]
ReturnedNone(n) == [kind |-> "none", status |-> "None", attempts |-> n]

RECURSIVE Attempt(_, _, _)
Attempt(script, n, cap) ==
    IF script[n] = "api_error"
    THEN IF n >= cap \/ n >= Len(script) THEN Raised(n) ELSE Attempt(script, n + 1, cap)
    ELSE IF script[n] = "other_error" THEN ReturnedNone(n)
    ELSE Returned(script[n], n)

\* mutant of place_order: a single attempt, no retry
place_order_once(script) == Attempt(script, 1, 1)

place_order(script) == Attempt(script, 1, RetryAttempts)

\* `if resp:` - a response mapping is truthy whatever its status
Truthy(result) == result.kind = "resp"

NoOrder == [placed |-> FALSE, side |-> "None", size |-> 0, script |-> <<>>,
            result |-> ReturnedNone(0)]

Order(side, size, script, result) ==
    [placed |-> TRUE, side |-> side, size |-> size, script |-> script, result |-> result]

\* ------------------------------------------------------------------------
\* Decisions (the dicts the oracle returns)
\* ------------------------------------------------------------------------
\* bad: the keys whose value is not of the type the code converts it from
\* (an action or side that is no string, a size float() rejects)
Decision(keys, action, side, size, name, params) ==
    [keys |-> keys, action |-> action, side |-> side, size |-> size,
     strategy_name |-> name, params |-> params, bad |-> {}]

\* dict.get(key, default)
Get(dec, key, default) == IF key \in dec.keys THEN dec[key] ELSE default

DHold == Decision({"action"}, "HOLD", "", 0, <<>>, <<>>)
DUnknown == Decision({"action"}, "rebalance", "", 0, <<>>, <<>>)
DOrder(side, size) == Decision({"action", "side", "size"}, "DIRECT_ORDER", side, size, <<>>, <<>>)
DStrategy(action, sc) ==
    Decision({"action", "strategy_name", "params"}, action, "", 0, sc[1], sc[2])

DecisionPool ==
    {DHold, DUnknown}
    \cup {DOrder(side, size) : side \in {"BUY", "SELL"}, size \in 1..MaxSize}
    \cup {DStrategy("STRATEGY", <<NameRsi, ParamsAB>>),
          DStrategy("STRATEGY", <<NameRsi, ParamsBA>>),
          DStrategy("__strategy", <<NameMacd, ParamsA>>)}

Batches == UNION {[1..n -> DecisionPool] : n \in 0..MaxBatch}

\* str.lower / str.upper / str.isupper on the action strings of the pool
Lower(a) ==
    CASE a = "HOLD" -> "hold"
      [] a = "DIRECT_ORDER" -> "direct_order"
      [] a = "STRATEGY" -> "strategy"
      [] OTHER -> a

Upper(a) ==
    CASE a = "rebalance" -> "REBALANCE"
      [] a = "__strategy" -> "__STRATEGY"
      [] OTHER -> a

IsUpper(a) == a # "" /\ Upper(a) = a

\* normalization.py 44-51
normalize_action(action) ==
    LET normalized == IF Lower(action) = "__strategy" THEN "STRATEGY" ELSE Upper(action)
    IN IF IsUpper(normalized) THEN normalized ELSE Upper(action)

IsStrategy(dec) == normalize_action(Get(dec, "action", "HOLD")) = "STRATEGY"

\* the identities the STRATEGY decisions of a batch ask for
RequestedIds(batch) ==
    {InlineStrategyId(Get(batch[i], "strategy_name", <<>>), Get(batch[i], "params", <<>>)) :
        i \in {j \in 1..Len(batch) : IsStrategy(batch[j])}}

Range(seq) == {seq[i] : i \in 1..Len(seq)}

\* ------------------------------------------------------------------------
\* process_multiple_decisions (trader_executor.py 110-261), one decision
\* ------------------------------------------------------------------------
DefaultSize == 1
Prices == {50000}

get_current_price_from_data(data) == data.current_price_usd

\* lines 174-187: a filled SELL against the position opened in this call
AfterSell(pos, partial_size) ==
    IF pos # NonePos /\ pos.side = "BUY"
    THEN LET sell_amount == Min2(pos.size, partial_size)
             remaining == pos.size - sell_amount
         IN IF remaining <= 0 THEN NonePos ELSE [pos EXCEPT !.size = remaining]
    ELSE NonePos

\* lines 153-192: new_position after the order of a DIRECT_ORDER decision
AfterOrder(pos, side, size, result, price, t) ==
    IF ~Truthy(result) THEN pos
    ELSE IF side = "BUY" THEN Position("BUY", size, price, DateTime(t))
    ELSE AfterSell(pos, size)

\* the decision at the head of `pending` is handled: HOLD and unknown
\* actions change nothing; a DIRECT_ORDER places its order (all attempts of
\* place_order included) and then saves new_position or removes the file;
\* an exception of place_order, of side.upper() (line 139) or of float(size)
\* (line 140) leaves the function at once.
ProcessDecision ==
    /\ cyc = "direct"
    /\ pending # <<>>
    /\ LET dec == Head(pending)
           action == Get(dec, "action", "HOLD")
           side == Get(dec, "side", "HOLD")
           size == Get(dec, "size", DefaultSize)
           price == get_current_price_from_data(data_json)
       IN IF action # "DIRECT_ORDER"
          THEN /\ pending' = Tail(pending)
               /\ lastOrder' = NoOrder
               /\ log' = IF action = "HOLD" THEN "hold" ELSE "unknown_action"
               /\ UNCHANGED <<cyc, new_position, position_store>>
          ELSE IF "side" \in dec.bad \/ "size" \in dec.bad
          THEN /\ cyc' = "direct_error"
               /\ log' = "decision_raised"
               /\ lastOrder' = NoOrder
               /\ UNCHANGED <<pending, new_position, position_store>>
          ELSE IF side \notin {"BUY", "SELL"}
          THEN /\ pending' = Tail(pending)
               /\ lastOrder' = NoOrder
               /\ log' = "unknown_side"
               /\ position_store' = PersistOrRemove(position_store, new_position)
               /\ new_position' =
                      IF new_position = NonePos THEN NonePos ELSE Serialized(new_position)
               /\ UNCHANGED cyc
          ELSE \E script \in Scripts :
               LET result == place_order(script) IN
               /\ lastOrder' = Order(side, size, script, result)
               /\ IF result.kind = "raise"
                  THEN /\ cyc' = "direct_error"
                       /\ log' = "order_raised"
                       /\ UNCHANGED <<pending, new_position, position_store>>
                  ELSE LET pos == AfterOrder(new_position, side, size, result, price, now) IN
                       /\ position_store' = PersistOrRemove(position_store, pos)
                       /\ new_position' = IF pos = NonePos THEN NonePos ELSE Serialized(pos)
                       /\ pending' = Tail(pending)
                       /\ log' = IF Truthy(result) THEN "order_done" ELSE "order_failed"
                       /\ UNCHANGED cyc
    /\ UNCHANGED <<extVars, mgrVars, cycle_count, now, current_pos, data_json, decisions, di,
                   direct_orders, new_strategy_ids, prev_strategy_ids>>

\* ------------------------------------------------------------------------
\* main_loop and main (orchestrator.py 74-232)
\* ------------------------------------------------------------------------
SleepHours == 4
NewsEvery == 3

\* the main thread calls a StrategyManager method
MainCalls(pc, arg) ==
    /\ mpc' = [mpc EXCEPT !["main"] = pc]
    /\ marg' = [marg EXCEPT !["main"] = arg]
    /\ UNCHANGED <<active_strategies, runners, nextTid, lock>>

\* lines 77-82
Connect ==
    /\ cyc = "connect"
    /\ \E ok \in BOOLEAN :
          /\ cyc' = IF ok THEN "load" ELSE "finally"
          /\ log' = IF ok THEN "connected" ELSE "connect_error"
    /\ UNCHANGED <<extVars, mgrVars, cycle_count, now, position_store, current_pos, data_json,
                   decisions, di, direct_orders, new_strategy_ids, new_position,
                   pending, lastOrder, prev_strategy_ids>>

\* lines 93-105: the saved position is loaded and, when too old, dropped
\* together with its file
CycleStart ==
    /\ cyc = "load"
    /\ cycle_count < MaxCycles
    /\ cycle_count' = cycle_count + 1
    /\ LET pos == load_position_state(position_store) IN
       IF pos # NonePos /\ Expired(now - pos.timestamp.h)
       THEN /\ current_pos' = NonePos
            /\ position_store' = RemoveFile(position_store)
            /\ log' = "position_invalidated"
       ELSE /\ current_pos' = pos
            /\ log' = "cycle_started"
            /\ UNCHANGED position_store
    /\ cyc' = "collect"
    /\ UNCHANGED <<extVars, mgrVars, now, data_json, decisions, di, direct_orders,
                   new_strategy_ids, new_position, pending, lastOrder,
                   prev_strategy_ids>>

\* lines 107-114
Collect ==
    /\ cyc = "collect"
    /\ \/ \E p \in Prices :
             /\ data_json' = [current_price_usd |-> p]
             /\ cyc' = "news"
             /\ log' = "data_collected"
       \/ /\ cyc' = "finally"
          /\ log' = "data_collector_error"
          /\ UNCHANGED data_json
    /\ UNCHANGED <<extVars, mgrVars, cycle_count, now, position_store, current_pos,
                   decisions, di, direct_orders, new_strategy_ids, new_position,
                   pending, lastOrder, prev_strategy_ids>>

\* lines 116-128
News ==
    /\ cyc = "news"
    /\ IF cycle_count % NewsEvery = 1
       THEN \E ok \in BOOLEAN :
               /\ cyc' = IF ok THEN "llm" ELSE "finally"
               /\ log' = IF ok THEN "news_updated" ELSE "news_collector_error"
       ELSE /\ cyc' = "llm"
            /\ log' = "no_news"
    /\ UNCHANGED <<extVars, mgrVars, cycle_count, now, position_store, current_pos, data_json,
                   decisions, di, direct_orders, new_strategy_ids, new_position,
                   pending, lastOrder, prev_strategy_ids>>

\* lines 136-173: the oracle answers with a batch (an empty answer becomes
\* [HOLD]) or fails
DecideFrom(batches) ==
    /\ cyc = "llm"
    /\ \/ \E batch \in batches :
             /\ decisions' = IF batch = <<>> THEN <<DHold>> ELSE batch
             /\ di' = 0
             /\ direct_orders' = <<>>
             /\ new_strategy_ids' = <<>>
             /\ cyc' = "partition"
             /\ log' = IF batch = <<>> THEN "default_hold" ELSE "decisions"
       \/ /\ cyc' = "finally"
          /\ log' = "llm_error"
          /\ UNCHANGED <<decisions, di, direct_orders, new_strategy_ids>>
    /\ UNCHANGED <<extVars, mgrVars, cycle_count, now, position_store, current_pos, data_json,
                   new_position, pending, lastOrder, prev_strategy_ids>>

Decide == DecideFrom(Batches)

\* line 185: sid in seen_strategy_ids (the identities appended so far)
Seen(sid, ids) == sid \in Range(ids)

\* lines 175-194, one pass of `for dec in decisions`
Partition ==
    /\ cyc = "partition"
    /\ mpc["main"] = "idle"
    /\ di < Len(decisions)
    /\ di' = di + 1
    /\ LET dec == decisions[di + 1]
           normalized_action == normalize_action(Get(dec, "action", "HOLD"))
           sname == Get(dec, "strategy_name", <<>>)
           sparams == Get(dec, "params", <<>>)
           sid == InlineStrategyId(sname, sparams)
       IN /\ decisions' = [decisions EXCEPT ![di + 1].action = normalized_action,
                                            ![di + 1].keys = @ \cup {"action"}]
          /\ IF normalized_action = "STRATEGY"
             THEN IF Seen(sid, new_strategy_ids)
                  THEN /\ log' = "duplicate_strategy"
                       /\ UNCHANGED <<mgrVars, new_strategy_ids, direct_orders>>
                  ELSE /\ new_strategy_ids' = Append(new_strategy_ids, sid)
                       /\ MainCalls("start_acq",
                                    [NoArg EXCEPT !.sid = make_strategy_id(sname, sparams)])
                       /\ log' = "strategy"
                       /\ UNCHANGED direct_orders
             ELSE IF normalized_action \in {"DIRECT_ORDER", "HOLD", "CLOSE_POSITION", "CANCEL_ORDER"}
             THEN /\ direct_orders' =
                        Append(direct_orders,
                               [dec EXCEPT !.action = normalized_action,
                                           !.keys = @ \cup {"action"}])
                  /\ log' = "direct"
                  /\ UNCHANGED <<mgrVars, new_strategy_ids>>
             ELSE /\ log' = "unknown_action"
                  /\ UNCHANGED <<mgrVars, new_strategy_ids, direct_orders>>
    /\ UNCHANGED <<extVars, cyc, cycle_count, now, position_store, current_pos, data_json,
                   new_position, pending, lastOrder, prev_strategy_ids>>

\* line 212
CallUpdateStrategies ==
    MainCalls("upd_acq", [NoArg EXCEPT !.new_ids = Range(new_strategy_ids)])

\* lines 196-199: the loop is over; process_multiple_decisions is entered
\* (new_position = None, line 124) when there are direct orders, else the
\* reconcile call follows
PartitionDone ==
    /\ cyc = "partition"
    /\ mpc["main"] = "idle"
    /\ di = Len(decisions)
    /\ IF direct_orders # <<>>
       THEN /\ cyc' = "direct"
            /\ pending' = direct_orders
            /\ new_position' = NonePos
            /\ log' = "direct_orders"
            /\ UNCHANGED mgrVars
       ELSE /\ cyc' = "reconcile"
            /\ CallUpdateStrategies
            /\ log' = "no_direct_orders"
            /\ UNCHANGED <<pending, new_position>>
    /\ UNCHANGED <<extVars, cycle_count, now, position_store, current_pos, data_json, decisions,
                   di, direct_orders, new_strategy_ids, lastOrder, prev_strategy_ids>>

\* lines 199-212: process_multiple_decisions has returned new_pos, or has
\* raised; then update_strategies(new_strategy_ids) is called
PostDirect ==
    /\ \/ cyc = "direct" /\ pending = <<>>
       \/ cyc = "direct_error"
    /\ IF cyc = "direct" /\ new_position # current_pos
       THEN /\ current_pos' = new_position
            /\ position_store' = PersistOrRemove(position_store, new_position)
       ELSE UNCHANGED <<current_pos, position_store>>
    /\ log' = IF cyc = "direct" THEN "position_after_direct_orders" ELSE "error_in_direct_orders"
    /\ cyc' = "reconcile"
    /\ CallUpdateStrategies
    /\ pending' = <<>>
    /\ lastOrder' = NoOrder
    /\ new_position' = NonePos
    /\ UNCHANGED <<extVars, cycle_count, now, data_json, decisions, di, direct_orders,
                   new_strategy_ids, prev_strategy_ids>>

\* lines 214-220: update_strategies has returned
CycleEnd ==
    /\ cyc = "reconcile"
    /\ mpc["main"] = "idle"
    /\ cyc' = "sleep"
    /\ prev_strategy_ids' = [valid |-> TRUE, ids |-> Range(new_strategy_ids)]
    /\ log' = "end_of_cycle"
    /\ UNCHANGED <<extVars, mgrVars, cycle_count, now, position_store, current_pos, data_json,
                   decisions, di, direct_orders, new_strategy_ids, new_position,
                   pending, lastOrder>>

\* line 221: time.sleep(4 * 3600) returns after four hours or later.  The
\* locals of the finished cycle are dead from here on (each is assigned
\* again before it is read: lines 97, 140, 171-173) and are cleared.
Sleep ==
    /\ cyc = "sleep"
    /\ \E late \in 0..1 : now' = now + SleepHours + late
    /\ cyc' = "load"
    /\ log' = "woke_up"
    /\ current_pos' = NonePos
    /\ decisions' = <<>>
    /\ di' = 0
    /\ direct_orders' = <<>>
    /\ new_strategy_ids' = <<>>
    /\ UNCHANGED <<extVars, mgrVars, cycle_count, position_store, data_json, new_position,
                   pending, lastOrder, prev_strategy_ids>>

\* main, lines 227-229: sys.exit unwinds into the finally block
Finally ==
    /\ cyc = "finally"
    /\ mpc["main"] = "idle"
    /\ cyc' = "cleanup"
    /\ MainCalls("sa_acq", NoArg)
    /\ log' = "exiting"
    /\ UNCHANGED <<extVars, cycle_count, now, position_store, current_pos, data_json,
                   decisions, di, direct_orders, new_strategy_ids, new_position,
                   pending, lastOrder, prev_strategy_ids>>

\* lines 230-232
Terminate ==
    /\ cyc = "cleanup"
    /\ mpc["main"] = "idle"
    /\ cyc' = "terminated"
    /\ log' = "bot_terminated"
    /\ UNCHANGED <<extVars, mgrVars, cycle_count, now, position_store, current_pos, data_json,
                   decisions, di, direct_orders, new_strategy_ids, new_position,
                   pending, lastOrder, prev_strategy_ids>>

\* ------------------------------------------------------------------------
\* State outside the orchestrator process: the exchange's open orders, the
\* order_executor gateway, place_order's quantity, the strategy state files
\* and the signal workers.  Each is at rest in the specifications that do
\* not exercise it.
\* ------------------------------------------------------------------------
\* float arithmetic on sizes, balances and percentages: exact fractions n/d
Abs(n) == IF n < 0 THEN 0 - n ELSE n

RECURSIVE GCD(_, _)
GCD(a, b) == IF b = 0 THEN a ELSE GCD(b, a % b)

Rat(n, d) ==
    LET g == GCD(Abs(n), Abs(d))
        sgn == IF d < 0 THEN 0 - 1 ELSE 1
    IN [n |-> (sgn * n) \div g, d |-> (sgn * d) \div g]

RatMul(a, b) == Rat(a.n * b.n, a.d * b.d)
RatDiv(a, b) == Rat(a.n * b.d, a.d * b.n)
RatLess(a, b) == a.n * b.d < b.n * a.d
RatLeq(a, b) == a.n * b.d <= b.n * a.d
Zero == Rat(0, 1)
One == Rat(1, 1)

\* the gateway at rest
\* decision.get("size_pct") when the key is absent
NonePct == [n |-> 0, d |-> 0]

GwIdle == [pc |-> "idle", side |-> "", size |-> Zero, size_pct |-> NonePct,
           free |-> Zero]

\* no save in progress
NoWrite == [pc |-> "idle"]

\* no dialogue with the operator
NoChat == [awaiting_stop_confirm |-> FALSE, reply |-> ""]

\* no signal worker constructed
NoWorker ==
    [kind |-> "", params |-> "", pc |-> "none", stop_event |-> FALSE, remaining |-> 0,
     fetched |-> "none", emitted |-> "none", orders |-> 0, handle |-> "none",
     waited |-> 0]

\* place_order's quantity at rest
NoLot == [pc |-> "idle", quantity |-> 0, stepSize |-> 0, sent |-> 0]

extInit ==
    /\ open_orders = {}
    /\ cancel_requested = {}
    /\ gw = GwIdle
    /\ lot = NoLot
    /\ state_files = <<>>
    /\ sig = <<>>
    /\ events = <<>>
    /\ atr = <<>>
    /\ writer = NoWrite /\ wk = NoWorker /\ chat = NoChat

\* ------------------------------------------------------------------------
\* Initial states
\* ------------------------------------------------------------------------
mgrInit ==
    /\ active_strategies = <<>>
    /\ runners = <<>>
    /\ nextTid = 1
    /\ lock = "free"
    /\ mpc = [c \in Callers |-> "idle"]
    /\ marg = [c \in Callers |-> NoArg]

\* ages, in hours, of a position file a previous run may have left
InitAges == {0, TTL, TTL + 1}
InitNow == TTL + 1

InitStores ==
    {{}} \cup {{Serialized(Position("BUY", size, p, DateTime(InitNow - age)))} :
                  size \in 1..MaxSize, p \in Prices, age \in InitAges}

orchInit ==
    /\ cyc = "connect"
    /\ cycle_count = 0
    /\ now = InitNow
    /\ current_pos = NonePos
    /\ data_json = [current_price_usd |-> 0]
    /\ decisions = <<>>
    /\ di = 0
    /\ direct_orders = <<>>
    /\ new_strategy_ids = <<>>
    /\ new_position = NonePos
    /\ pending = <<>>
    /\ lastOrder = NoOrder
    /\ prev_strategy_ids = [valid |-> FALSE, ids |-> {}]
    /\ log = "start"

\* ------------------------------------------------------------------------
\* SpecManager: the StrategyManager driven through its public methods by
\* two threads
\* ------------------------------------------------------------------------
CallStart(c) ==
    /\ mpc[c] = "idle"
    /\ nextTid <= MaxThreads
    /\ \E sc \in StrategyCalls :
          Enter(c, "start_acq", [NoArg EXCEPT !.sid = make_strategy_id(sc[1], sc[2])])
    /\ UNCHANGED <<active_strategies, runners, nextTid, lock, orchVars, extVars>>

CallStop(c) ==
    /\ mpc[c] = "idle"
    /\ \E sid \in SidPool : Enter(c, "stop_acq", [NoArg EXCEPT !.sid = sid])
    /\ UNCHANGED <<active_strategies, runners, nextTid, lock, orchVars, extVars>>

CallUpdate(c) ==
    /\ mpc[c] = "idle"
    /\ \E ids \in SUBSET SidPool : Enter(c, "upd_acq", [NoArg EXCEPT !.new_ids = ids])
    /\ UNCHANGED <<active_strategies, runners, nextTid, lock, orchVars, extVars>>

CallStopAll(c) ==
    /\ mpc[c] = "idle"
    /\ Enter(c, "sa_acq", NoArg)
    /\ UNCHANGED <<active_strategies, runners, nextTid, lock, orchVars, extVars>>

InitManager == mgrInit /\ orchInit /\ extInit /\ position_store = {}

NextManager ==
    \/ \E c \in Callers : CallStart(c)
    \/ \E c \in Callers : CallStop(c)
    \/ \E c \in Callers : CallUpdate(c)
    \/ \E c \in Callers : CallStopAll(c)
    \/ \E c \in Callers : acquire_lock(c)
    \/ \E c \in Callers : start_strategy_body(c)
    \/ \E c \in Callers : stop_strategy_body(c)
    \/ \E c \in Callers : update_strategies_body(c)
    \/ \E c \in Callers : update_strategies_loop(c)
    \/ \E c \in Callers : stop_all_loop(c)
    \/ \E t \in DOMAIN runners : RunnerExit(t)

SpecManager == InitManager /\ [][NextManager]_vars

\* ------------------------------------------------------------------------
\* Spec: the orchestrator process - the main thread running main_loop, the
\* StrategyManager methods it calls, and the runner threads
\* ------------------------------------------------------------------------
Init == mgrInit /\ orchInit /\ extInit /\ position_store \in InitStores

Next ==
    \/ Connect
    \/ CycleStart
    \/ Collect
    \/ News
    \/ Decide
    \/ Partition
    \/ PartitionDone
    \/ ProcessDecision
    \/ PostDirect
    \/ CycleEnd
    \/ Sleep
    \/ Finally
    \/ Terminate
    \/ acquire_lock("main")
    \/ start_strategy_body("main")
    \/ update_strategies_body("main")
    \/ update_strategies_loop("main")
    \/ stop_all_loop("main")
    \/ \E t \in DOMAIN runners : RunnerExit(t)

Spec == Init /\ [][Next]_vars

\* the main thread and the runner threads keep running while they can
FairSpec == Spec /\ WF_vars(Next)

\* ------------------------------------------------------------------------
\* The exchange's open orders (binance_api.py 108-135)
\* ------------------------------------------------------------------------
OpenOrderPool == {[orderId |-> 1, side |-> "BUY"], [orderId |-> 2, side |-> "SELL"]}

\* list_open_orders: the open orders, or [] when get_open_orders fails
list_open_orders(orders, ok) == IF ok THEN orders ELSE {}

\* the orders a cleanup for `side` sends a cancel request for
Conflicting(listed, side) == {o \in listed : o.side # side}

\* ------------------------------------------------------------------------
\* order_executor.py: the gateway
\* ------------------------------------------------------------------------
GwDecision(keys, action, side, size, size_pct, name) ==
    [keys |-> keys, action |-> action, side |-> side, size |-> size,
     size_pct |-> size_pct, strategy_name |-> name]

PctPool == {Rat(0 - 1, 2), Zero, Rat(3, 10), One, Rat(3, 2)}
SizePool == {Zero, Rat(1, 100)}
UsdtPool == {Zero, Rat(1000, 1)}
BtcPool == {Zero, Rat(2, 1)}

GwDecisionPool ==
    {GwDecision({"action"}, "HOLD", "", Zero, NonePct, <<>>),
     GwDecision({"action"}, "rebalance", "", Zero, NonePct, <<>>),
     GwDecision({"action", "strategy_name"}, "STRATEGY", "", Zero, NonePct, NameRsi),
     GwDecision({"action", "size"}, "DIRECT_ORDER", "", Rat(1, 100), NonePct, <<>>)}
    \cup {GwDecision({"action", "side", "size"}, "DIRECT_ORDER", "BUY", size, NonePct, <<>>) :
             size \in SizePool}
    \cup {GwDecision({"action", "side", "size"}, "DIRECT_ORDER", "sell", Rat(1, 100),
                     NonePct, <<>>)}
    \cup {GwDecision({"action", "side", "size_pct"}, "DIRECT_ORDER", "BUY", Zero, pct, <<>>) :
             pct \in PctPool}
    \cup {GwDecision({"action", "side", "size_pct"}, "DIRECT_ORDER", "SELL", Zero, pct, <<>>) :
             pct \in {Rat(0 - 1, 2), Rat(3, 10)}}

GwBatches == UNION {[1..n -> GwDecisionPool] : n \in 1..MaxBatch}

\* str.upper on the side strings of the pool
UpperSide(side) == IF side = "sell" THEN "SELL" ELSE side

\* _get_asset_free_balance, lines 90-97: what the exchange reports, or 0.0
\* when the request fails
FreeBalances(asset) == IF asset = "USDT" THEN UsdtPool ELSE BtcPool

\* _execute_direct_order, lines 105-116: the asset whose balance is read
BalanceAsset(side) == IF side = "BUY" THEN "USDT" ELSE "BTC"

\* mutant of ResolveSize: the percentage of the balance, never divided by
\* the price
ResolveSizeNoPrice(side, size_pct, size, free, price) ==
    IF size_pct # NonePct THEN RatMul(free, size_pct) ELSE size

\* _execute_direct_order, lines 107-116
ResolveSize(side, size_pct, size, free, price) ==
    IF size_pct # NonePct
    THEN IF side = "BUY"
         THEN RatDiv(RatMul(free, size_pct), Rat(price, 1))
         ELSE RatMul(free, size_pct)
    ELSE size

\* line 118
InvalidDirect(side, size) == side \notin {"BUY", "SELL"} \/ RatLeq(size, Zero)

\* get_current_price, lines 67-73
get_current_price(data) == data.current_price_usd

\* _persist_position, lines 81-87
_persist_position(store, pos) ==
    IF pos # NonePos THEN WriteFile(store, pos) ELSE RemoveFile(store)

\* lines 124-140: what _execute_direct_order returns after place_order
DirectResult(side, size, result, price, t) ==
    IF result.kind # "resp" \/ result.status # "FILLED" THEN NonePos
    ELSE IF side = "BUY" THEN Position("BUY", size, price, DateTime(t))
    ELSE NonePos

\* the position object the caller holds after save_position_state has
\* replaced its timestamp by the ISO string
Saved(pos) == IF pos = NonePos THEN NonePos ELSE Serialized(pos)

\* process_multiple_decisions, lines 201-224, up to the order of a
\* DIRECT_ORDER: HOLD is skipped; STRATEGY finds no function in the (empty)
\* STRATEGY_REGISTRY and yields None; an unknown action keeps new_position;
\* a DIRECT_ORDER resolves its size and, when valid, goes on to the cleanup
GwDecide ==
    /\ gw.pc = "loop"
    /\ pending # <<>>
    /\ LET dec == Head(pending)
           action == Get(dec, "action", "HOLD")
           side == UpperSide(Get(dec, "side", ""))
           size_pct == Get(dec, "size_pct", NonePct)
           price == get_current_price(data_json)
       IN IF action = "HOLD"
          THEN /\ pending' = Tail(pending)
               /\ gw' = [GwIdle EXCEPT !.pc = "loop"]
               /\ log' = "hold"
               /\ UNCHANGED <<new_position, position_store>>
          ELSE IF action = "DIRECT_ORDER"
          THEN \E free \in (IF size_pct # NonePct THEN FreeBalances(BalanceAsset(side))
                            ELSE {Zero}) :
               LET size == ResolveSize(side, size_pct, Get(dec, "size", Zero), free, price)
               IN IF InvalidDirect(side, size)
                  THEN /\ gw' = [pc |-> "loop", side |-> side, size |-> size,
                                 size_pct |-> size_pct, free |-> free]
                       /\ new_position' = NonePos
                       /\ position_store' = _persist_position(position_store, NonePos)
                       /\ pending' = Tail(pending)
                       /\ log' = "invalid_direct_order"
                  ELSE /\ gw' = [pc |-> "cleanup", side |-> side, size |-> size,
                                 size_pct |-> size_pct, free |-> free]
                       /\ log' = "direct_order"
                       /\ UNCHANGED <<new_position, position_store, pending>>
          ELSE LET pos == IF action = "STRATEGY" THEN NonePos ELSE new_position
               IN /\ new_position' = Saved(pos)
                  /\ position_store' = _persist_position(position_store, pos)
                  /\ pending' = Tail(pending)
                  /\ gw' = [GwIdle EXCEPT !.pc = "loop"]
                  /\ log' = IF action = "STRATEGY" THEN "unrecognized_strategy"
                            ELSE "unknown_action"
    /\ UNCHANGED <<mgrVars, cyc, cycle_count, now, current_pos, data_json, decisions,
                   di, direct_orders, new_strategy_ids, lastOrder, prev_strategy_ids,
                   exchVars, lot, workerVars>>

\* _cleanup_conflicts, lines 76-79: every listed order of the other side
\* gets a cancel request; a request the exchange accepts closes the order
GwCleanup ==
    /\ gw.pc = "cleanup"
    /\ \E ok \in BOOLEAN :
          LET targets == Conflicting(list_open_orders(open_orders, ok), gw.side)
          IN /\ cancel_requested' = cancel_requested \cup {o.orderId : o \in targets}
             /\ \E cancelled \in SUBSET targets : open_orders' = open_orders \ cancelled
    /\ gw' = [gw EXCEPT !.pc = "place"]
    /\ UNCHANGED <<mgrVars, orchVars, lot, workerVars>>

\* lines 123-140 and 224: place_order with all its attempts, then the
\* position is persisted; an exception of place_order leaves
\* process_multiple_decisions at once
GwPlace ==
    /\ gw.pc = "place"
    /\ \E script \in Scripts :
          LET result == place_order(script) IN
          /\ lastOrder' = Order(gw.side, gw.size, script, result)
          /\ IF result.kind = "raise"
             THEN /\ gw' = [gw EXCEPT !.pc = "raised"]
                  /\ log' = "order_raised"
                  /\ UNCHANGED <<pending, new_position, position_store>>
             ELSE LET pos == DirectResult(gw.side, gw.size, result,
                                          get_current_price(data_json), now)
                  IN /\ new_position' = Saved(pos)
                     /\ position_store' = _persist_position(position_store, pos)
                     /\ pending' = Tail(pending)
                     /\ gw' = [gw EXCEPT !.pc = "loop"]
                     /\ log' = IF pos = NonePos /\ gw.side = "BUY" THEN "order_failed"
                               ELSE "order_done"
    /\ UNCHANGED <<mgrVars, cyc, cycle_count, now, current_pos, data_json, decisions,
                   di, direct_orders, new_strategy_ids, prev_strategy_ids,
                   exchVars, lot, workerVars>>

\* line 226
GwReturn ==
    /\ gw.pc = "loop"
    /\ pending = <<>>
    /\ gw' = [gw EXCEPT !.pc = "returned"]
    /\ UNCHANGED <<mgrVars, orchVars, exchVars, lot, workerVars>>

\* the position file before the call: absent, or a fresh position
GwInitStores ==
    {{}} \cup {{Serialized(Position("BUY", Rat(1, 100), p, DateTime(InitNow)))} :
                  p \in Prices}

\* a call of process_multiple_decisions: a batch, the position file as it
\* is, the caller's current_position, the exchange's open orders
InitGateway ==
    /\ mgrInit
    /\ cyc = "connect" /\ cycle_count = 0 /\ now = InitNow
    /\ current_pos = NonePos
    /\ data_json \in {[current_price_usd |-> p] : p \in Prices}
    /\ decisions = <<>> /\ di = 0 /\ direct_orders = <<>> /\ new_strategy_ids = <<>>
    /\ position_store \in GwInitStores
    /\ new_position \in {NonePos, load_position_state(position_store)}
    /\ pending \in GwBatches
    /\ lastOrder = NoOrder
    /\ prev_strategy_ids = [valid |-> FALSE, ids |-> {}]
    /\ log = "start"
    /\ open_orders \in SUBSET OpenOrderPool
    /\ cancel_requested = {}
    /\ gw = [GwIdle EXCEPT !.pc = "loop"]
    /\ lot = NoLot /\ state_files = <<>> /\ sig = <<>> /\ events = <<>> /\ atr = <<>>
    /\ writer = NoWrite /\ wk = NoWorker /\ chat = NoChat

NextGateway == GwDecide \/ GwCleanup \/ GwPlace \/ GwReturn

SpecGateway == InitGateway /\ [][NextGateway]_vars

\* ------------------------------------------------------------------------
\* place_order, lines 67-90: the quantity that is sent.  Decimal values are
\* counted in units of the finest decimal place in play; a LOT_SIZE step
\* is its value in those units and the grain of its last decimal digit
\* ("0.010" is 10 units with grain 1, "0.01" is 10 units with grain 10).
\* ------------------------------------------------------------------------
MaxQty == 12

LotStep(units, grain) == [units |-> units, grain |-> grain]

\* no LOT_SIZE filter in the symbol info (KeyError / StopIteration)
NoFilter == LotStep(0, 0)

LotSteps == {LotStep(1, 1), LotStep(2, 1), LotStep(5, 1), LotStep(10, 1), LotStep(10, 10)}

\* Decimal.__floordiv__: the quotient truncated toward zero
TruncDiv(a, b) == IF a >= 0 THEN a \div b ELSE 0 - ((0 - a) \div b)

\* mutant of Quantize: rounds to the nearest multiple of the step
QuantizeNearest(quantity, step) ==
    TruncDiv(2 * quantity + step.units, 2 * step.units) * step.units

\* lines 79-81: adj_q = (q // step) * step
Quantize(quantity, step) == TruncDiv(quantity, step.units) * step.units

\* line 83: format(adj_q, ".<precision>f") rounds to the step's last
\* decimal digit, half to even
FormatFixed(x, grain) ==
    LET q == x \div grain
        r == x - q * grain
    IN IF 2 * r < grain THEN q * grain
       ELSE IF 2 * r > grain THEN (q + 1) * grain
       ELSE IF q % 2 = 0 THEN q * grain ELSE (q + 1) * grain

\* lines 67-83
quantity_str(quantity, step) ==
    IF step = NoFilter THEN quantity
    ELSE FormatFixed(Quantize(quantity, step), step.grain)

\* a call place_order(client, symbol, side, quantity): the quantity is cut
\* to the step and the order created, with all attempts of the retry
PlaceOrderCall ==
    /\ lot.pc = "called"
    /\ \E script \in Scripts :
          LET sent == quantity_str(lot.quantity, lot.stepSize)
          IN /\ lot' = [lot EXCEPT !.pc = "sent", !.sent = sent]
             /\ lastOrder' = Order("BUY", sent, script, place_order(script))
    /\ UNCHANGED <<mgrVars, cyc, cycle_count, now, position_store, current_pos,
                   data_json, decisions, di, direct_orders, new_strategy_ids,
                   new_position, pending, prev_strategy_ids, log, exchVars, gw,
                   workerVars>>

InitLot ==
    /\ mgrInit /\ orchInit /\ position_store = {}
    /\ open_orders = {} /\ cancel_requested = {} /\ gw = GwIdle
    /\ state_files = <<>> /\ sig = <<>> /\ events = <<>> /\ atr = <<>>
    /\ writer = NoWrite /\ wk = NoWorker /\ chat = NoChat
    /\ lot \in {[pc |-> "called", quantity |-> q, stepSize |-> st, sent |-> 0] :
                   q \in (0 - MaxQty)..MaxQty, st \in LotSteps \cup {NoFilter}}

NextLot == PlaceOrderCall

SpecLot == InitLot /\ [][NextLot]_vars

\* ------------------------------------------------------------------------
\* Strategy state files and the signal workers that poll
\*   strategies/ma_crossover/ma_crossover.py   (run_strategy, load/save_state)
\*   strategies/macd/macd.py                   (MACrossoverRunner)
\*   strategies/bollinger/bollinger_runner.py  (BollingerRunner)
\*   strategies/rsi/rsi_runner.py              (RSIRunner)
\* ------------------------------------------------------------------------
Signals == {"BUY", "SELL", "HOLD"}

\* content of a file: absent, a complete JSON document, or a cut-off one
Absent == [k |-> "absent", v |-> [last_signal |-> "none"]]
Partial == [k |-> "partial", v |-> [last_signal |-> "none"]]
Json(v) == [k |-> "json", v |-> v]

SignalState(signal) == [last_signal |-> signal]

\* one state file per strategy module
MaCrossStateFile == "ma_crossover_state.json"
RsiStateFile == "rsi_state.json"
SignalStateFiles == {MaCrossStateFile, RsiStateFile}

\* load_state / load_rsi_state: the document, or the default when the file
\* is missing or cannot be parsed
load_state(files, f) ==
    IF files[f].k = "json" THEN files[f].v ELSE SignalState("HOLD")

\* ma_crossover.save_state: temp file then os.replace; on an error the
\* state file keeps its content
save_state(files, f, v, ok) == IF ok THEN [files EXCEPT ![f] = Json(v)] ELSE files

\* save_rsi_state: written in place; an error while writing leaves the
\* file cut off
save_rsi_state(files, f, v, ok) ==
    IF ok THEN [files EXCEPT ![f] = Json(v)] ELSE [files EXCEPT ![f] = Partial]

Workers == {"ma_crossover", "macd_runner", "bollinger", "rsi_1", "rsi_2"}

StateFileOf(w) ==
    CASE w \in {"ma_crossover", "macd_runner"} -> MaCrossStateFile
      [] w \in {"rsi_1", "rsi_2"} -> RsiStateFile
      [] OTHER -> ""

Callback(signal) == [type |-> "callback", signal |-> signal]
Result(signal) == [type |-> "result", signal |-> signal]

\* ma_crossover.run_strategy, lines 107-134: the signal it returns
MaCrossReturned(params_ok, fetch_ok, last, new_signal) ==
    IF ~params_ok \/ ~fetch_ok THEN "HOLD"
    ELSE IF new_signal \in {"BUY", "SELL"} /\ new_signal # last THEN new_signal
    ELSE "HOLD"

\* lines 128-130: the state file after the call
MaCrossFiles(files, params_ok, fetch_ok, last, new_signal, save_ok) ==
    IF params_ok /\ fetch_ok /\ new_signal \in {"BUY", "SELL"} /\ new_signal # last
    THEN save_state(files, MaCrossStateFile, SignalState(new_signal), save_ok)
    ELSE files

\* the poll that has just run: who polled, the signal it computed, the
\* signal state it started from, and per worker the signal state it left
\* behind at its own previous poll; returned is the last signal other than
\* HOLD that a call of ma_crossover.run_strategy has returned
Polled(w, computed, previous, left) ==
    [seq |-> 1 - sig.seq, worker |-> w, computed |-> computed, previous |-> previous,
     known |-> [sig.known EXCEPT ![w] = left], returned |-> sig.returned]

\* run_strategy has returned ret
Returning(polled, ret) ==
    [polled EXCEPT !.returned = IF ret = "HOLD" THEN @ ELSE ret]

NonHold(signal) == IF signal = "HOLD" THEN <<>> ELSE <<Result(signal)>>

\* a call of ma_crossover.run_strategy
MaCrossoverPoll ==
    /\ \E params_ok, fetch_ok, save_ok \in BOOLEAN, new_signal \in Signals :
          LET last == load_state(state_files, MaCrossStateFile).last_signal
              ret == MaCrossReturned(params_ok, fetch_ok, last, new_signal)
              files == MaCrossFiles(state_files, params_ok, fetch_ok, last,
                                    new_signal, save_ok)
          IN /\ state_files' = files
             /\ events' = NonHold(ret)
             /\ sig' = Returning(Polled("ma_crossover",
                                        IF params_ok /\ fetch_ok THEN new_signal ELSE "HOLD",
                                        last,
                                        load_state(files, MaCrossStateFile).last_signal),
                                 ret)
    /\ UNCHANGED <<mgrVars, orchVars, exchVars, gw, lot, atr, writer, wk, chat>>

\* one iteration of MACrossoverRunner.run (macd.py 103-122): fetch, then
\* run_strategy, then the callback with whatever run_strategy returned
MacdRunnerPoll ==
    /\ \E outer_fetch_ok, fetch_ok, save_ok \in BOOLEAN, new_signal \in Signals :
          LET last == load_state(state_files, MaCrossStateFile).last_signal
              ret == MaCrossReturned(TRUE, fetch_ok, last, new_signal)
              files == MaCrossFiles(state_files, TRUE, fetch_ok, last, new_signal,
                                    save_ok)
          IN IF ~outer_fetch_ok
             THEN /\ events' = <<>>
                  /\ sig' = Polled("macd_runner", "HOLD", last, last)
                  /\ UNCHANGED state_files
             ELSE /\ state_files' = files
                  /\ events' = NonHold(ret) \o <<Callback(ret)>>
                  /\ sig' = Returning(Polled("macd_runner",
                                             IF fetch_ok THEN new_signal ELSE "HOLD", last,
                                             load_state(files, MaCrossStateFile).last_signal),
                                      ret)
    /\ UNCHANGED <<mgrVars, orchVars, exchVars, gw, lot, atr, writer, wk, chat>>

\* one iteration of BollingerRunner.run (lines 93-103): no state file; the
\* callback gets the computed signal
BollingerPoll ==
    /\ \E fetch_ok, has_callback \in BOOLEAN, signal \in Signals :
          IF ~fetch_ok
          THEN /\ events' = <<>>
               /\ sig' = Polled("bollinger", "HOLD", sig.known["bollinger"],
                                sig.known["bollinger"])
          ELSE /\ events' = IF has_callback THEN <<Callback(signal)>> ELSE <<>>
               /\ sig' = Polled("bollinger", signal, sig.known["bollinger"], signal)
    /\ UNCHANGED <<mgrVars, orchVars, exchVars, gw, lot, state_files, atr, writer, wk, chat>>

\* one iteration of RSIRunner.run (lines 116-157) of one of two RSI workers
\* with different parameters
RsiPoll(w) ==
    /\ \E data_ok, save_ok \in BOOLEAN, new_signal \in Signals :
          LET last == load_state(state_files, RsiStateFile).last_signal
              changed == data_ok /\ new_signal \in {"BUY", "SELL"} /\ new_signal # last
              files == IF changed
                       THEN save_rsi_state(state_files, RsiStateFile,
                                           SignalState(new_signal), save_ok)
                       ELSE state_files
          IN /\ state_files' = files
             /\ events' = <<>>
             /\ sig' = Polled(w, IF data_ok THEN new_signal ELSE "HOLD", last,
                              IF changed /\ save_ok THEN new_signal ELSE sig.known[w])
    /\ UNCHANGED <<mgrVars, orchVars, exchVars, gw, lot, atr, writer, wk, chat>>

InitSignal ==
    /\ mgrInit /\ orchInit /\ position_store = {}
    /\ open_orders = {} /\ cancel_requested = {} /\ gw = GwIdle /\ lot = NoLot
    /\ atr = <<>> /\ writer = NoWrite /\ wk = NoWorker /\ chat = NoChat
    /\ state_files = [f \in SignalStateFiles |-> Absent]
    /\ events = <<>>
    /\ sig = [seq |-> 0, worker |-> "", computed |-> "HOLD", previous |-> "HOLD",
              known |-> [w \in Workers |-> "HOLD"], returned |-> "HOLD"]

NextSignal ==
    \/ MaCrossoverPoll
    \/ MacdRunnerPoll
    \/ BollingerPoll
    \/ \E w \in {"rsi_1", "rsi_2"} : RsiPoll(w)

SpecSignal == InitSignal /\ [][NextSignal]_vars

\* ------------------------------------------------------------------------
\* Saving a state file, step by step, with the process stopping at any step
\*   strategies/atr_stop/atr_stop.py            save_state (in place)
\*   strategies/rsi/rsi_runner.py               save_rsi_state (in place)
\*   strategies/ma_crossover/ma_crossover.py    save_state (temp file, replace)
\*   trader_executor.py / order_executor.py     save_position_state (in place)
\* ------------------------------------------------------------------------
AtrStateFile == "atr_stop_state.json"
MaCrossTmpFile == "ma_crossover_state.json.tmp"
PositionFile == "position_state.json"

\* the persisted state of atr_stop
AtrState(in_uptrend, below_count, above_count, lock_counter) ==
    [in_uptrend |-> in_uptrend, below_count |-> below_count,
     above_count |-> above_count, lock_counter |-> lock_counter]

\* atr_stop.load_state, lines 20-27: the default state
AtrDefault == AtrState(TRUE, 0, 0, 0)

\* who saves: the file, whether through a temp file, whether under a lock
Savers ==
    {[name |-> "atr_stop.save_state", file |-> AtrStateFile, temp |-> FALSE,
      locked |-> FALSE],
     [name |-> "rsi_runner.save_rsi_state", file |-> RsiStateFile, temp |-> FALSE,
      locked |-> FALSE],
     [name |-> "ma_crossover.save_state", file |-> MaCrossStateFile, temp |-> TRUE,
      locked |-> TRUE],
     [name |-> "trader_executor.save_position_state", file |-> PositionFile,
      temp |-> FALSE, locked |-> FALSE],
     [name |-> "order_executor.save_position_state", file |-> PositionFile,
      temp |-> FALSE, locked |-> TRUE]}

\* what a saver may be asked to write
SaveValues(file) ==
    CASE file = AtrStateFile -> {AtrState(FALSE, 0, 0, 2), AtrState(TRUE, 1, 0, 0)}
      [] file = PositionFile ->
             {Serialized(Position("BUY", size, p, DateTime(InitNow))) :
                 size \in 1..MaxSize, p \in Prices}
      [] OTHER -> {SignalState("BUY"), SignalState("SELL")}

\* the content of a file, the position file included
Content(f) ==
    IF f # PositionFile THEN state_files[f]
    ELSE IF position_store = {} THEN Absent
    ELSE IF position_store = {CutOff} THEN Partial
    ELSE Json(CHOOSE r \in position_store : TRUE)

\* the files after `f` got content `c`
SetContent(f, c) ==
    IF f # PositionFile
    THEN /\ state_files' = [state_files EXCEPT ![f] = c]
         /\ UNCHANGED position_store
    ELSE /\ position_store' = IF c.k = "absent" THEN {}
                              ELSE IF c.k = "partial" THEN {CutOff}
                              ELSE {c.v}
         /\ UNCHANGED state_files

\* the file a saver opens for writing
Target(saver) == IF saver.temp THEN MaCrossTmpFile ELSE saver.file

\* what a reader gets back (load_state, load_rsi_state, atr_stop.load_state,
\* load_position_state): the document, or the default without one
Loaded(f) ==
    IF f = PositionFile
    THEN LET pos == load_position_state(position_store)
         IN IF pos = NonePos THEN NonePos ELSE Serialized(pos)
    ELSE IF state_files[f].k = "json" THEN state_files[f].v
    ELSE IF f = AtrStateFile THEN AtrDefault
    ELSE SignalState("HOLD")

Writing == writer.pc \in {"opening", "dumping", "replacing"}

\* a save is called
SaveBegin ==
    /\ writer.pc \in {"idle", "saved"}
    /\ \E saver \in Savers : \E v \in SaveValues(saver.file) :
          writer' = [pc |-> "opening", saver |-> saver, value |-> v,
                     old |-> Content(saver.file)]
    /\ UNCHANGED <<mgrVars, orchVars, exchVars, gw, lot, state_files, sig, events, atr, wk, chat>>

\* open(target, "w"): the target exists and is empty
SaveOpen ==
    /\ writer.pc = "opening"
    /\ SetContent(Target(writer.saver), Partial)
    /\ writer' = [writer EXCEPT !.pc = "dumping"]
    /\ UNCHANGED <<mgrVars, cyc, cycle_count, now, current_pos, data_json, decisions,
                   di, direct_orders, new_strategy_ids, new_position, pending,
                   lastOrder, prev_strategy_ids, log, exchVars, gw, lot, sig, events,
                   atr, wk, chat>>

\* json.dump and the close of the file: the target holds the document
SaveDump ==
    /\ writer.pc = "dumping"
    /\ SetContent(Target(writer.saver), Json(writer.value))
    /\ writer' = [writer EXCEPT !.pc = IF writer.saver.temp THEN "replacing" ELSE "saved"]
    /\ UNCHANGED <<mgrVars, cyc, cycle_count, now, current_pos, data_json, decisions,
                   di, direct_orders, new_strategy_ids, new_position, pending,
                   lastOrder, prev_strategy_ids, log, exchVars, gw, lot, sig, events,
                   atr, wk, chat>>

\* os.replace(tmp, file), ma_crossover.py line 41
SaveReplace ==
    /\ writer.pc = "replacing"
    /\ state_files' = [state_files EXCEPT ![writer.saver.file] = state_files[MaCrossTmpFile],
                                          ![MaCrossTmpFile] = Absent]
    /\ writer' = [writer EXCEPT !.pc = "saved"]
    /\ UNCHANGED <<mgrVars, orchVars, exchVars, gw, lot, sig, events, atr, wk, chat>>

\* the process stops in the middle of a save
Crash ==
    /\ Writing
    /\ writer' = [writer EXCEPT !.pc = "crashed"]
    /\ UNCHANGED <<mgrVars, orchVars, exchVars, gw, lot, state_files, sig, events, atr, wk, chat>>

\* the process is started again; the files are as the crash left them
Restart ==
    /\ writer.pc = "crashed"
    /\ writer' = [writer EXCEPT !.pc = "idle"]
    /\ UNCHANGED <<mgrVars, orchVars, exchVars, gw, lot, state_files, sig, events, atr, wk, chat>>

StateFiles == {AtrStateFile, RsiStateFile, MaCrossStateFile, MaCrossTmpFile}

InitState ==
    /\ mgrInit /\ orchInit /\ position_store = {}
    /\ open_orders = {} /\ cancel_requested = {} /\ gw = GwIdle /\ lot = NoLot
    /\ sig = <<>> /\ events = <<>> /\ atr = <<>>
    /\ state_files = [f \in StateFiles |-> Absent]
    /\ writer = [pc |-> "idle", saver |-> CHOOSE sv \in Savers : TRUE,
                 value |-> SignalState("HOLD"), old |-> Absent]
    /\ wk = NoWorker /\ chat = NoChat

NextState == SaveBegin \/ SaveOpen \/ SaveDump \/ SaveReplace \/ Crash \/ Restart

SpecState == InitState /\ [][NextState]_vars

\* ------------------------------------------------------------------------
\* atr_stop.run_strategy, one candle of the frame per step
\*   strategies/atr_stop/atr_stop.py
\* The bands are left out: a candle is known by what the loop tests of it,
\* whether it gaps from the previous close, and where it closes with
\* respect to the band of the trend it is evaluated in.
\* ------------------------------------------------------------------------
MaxCandles == 4

\* params.get("consecutive_candles", 2), line 79
ConsecutiveCandles == 2

\* params.get("period", 14), line 77: the span of the ATR average
Period == 14

\* params.get("lock_candles", 2), line 81
LockCandlesPool == {1, 2}

\* gap: lines 141-146 skip it; below: close < final_lower (line 159);
\* above: close > final_upper (line 168); inside: neither
CandleKinds == {"gap", "below", "above", "inside"}

\* one row of the frame, the columns the loop maintains and the lock counter
\* after the row. bands tells where final_upper and final_lower of the row
\* come from: "persisted" (lines 125-126), "basic" (lines 135-136, the
\* candle's own basic bands) or "trend" (lines 154-191, which may average
\* them with the previous row's).
AtrRow(kind, locked, in_uptrend, below_count, above_count, lock_counter, bands) ==
    [kind |-> kind, locked |-> locked, in_uptrend |-> in_uptrend,
     below_count |-> below_count, above_count |-> above_count,
     lock_counter |-> lock_counter, bands |-> bands]

\* lines 123-128: the persisted state is applied to the first candle
FirstRow(state) ==
    AtrRow("first", FALSE, state.in_uptrend, state.below_count, state.above_count,
           state.lock_counter, "persisted")

\* lines 179-180
FlipsDown(prev, below_count) == prev.in_uptrend /\ below_count >= ConsecutiveCandles

\* lines 186-187
FlipsUp(prev, above_count) == ~prev.in_uptrend /\ above_count >= ConsecutiveCandles

\* a loop that tests the gap after the counters and keeps the previous bands
LoopBodyGapLate(prev, kind, lock_candles) ==
    IF prev.lock_counter > 0
    THEN AtrRow(kind, TRUE, prev.in_uptrend, prev.below_count, prev.above_count,
                prev.lock_counter - 1, "basic")
    ELSE LET below_count == IF prev.in_uptrend /\ kind = "below"
                            THEN prev.below_count + 1 ELSE 0
             above_count == IF ~prev.in_uptrend /\ kind = "above"
                            THEN prev.above_count + 1 ELSE 0
         IN AtrRow(kind, FALSE, prev.in_uptrend, below_count, above_count,
                   prev.lock_counter, IF kind = "gap" THEN "previous" ELSE "trend")

\* lines 131-191: one iteration of the loop. atr_min_threshold is 0.0
\* (line 80) and an ATR is never negative, so line 175 never skips.
LoopBody(prev, kind, lock_candles) ==
    IF kind = "gap"
    THEN AtrRow(kind, FALSE, prev.in_uptrend, prev.below_count, prev.above_count,
                prev.lock_counter, "basic")
    ELSE IF prev.lock_counter > 0
    THEN AtrRow(kind, TRUE, prev.in_uptrend, prev.below_count, prev.above_count,
                prev.lock_counter - 1, "basic")
    ELSE LET below_count == IF prev.in_uptrend /\ kind = "below"
                            THEN prev.below_count + 1 ELSE 0
             above_count == IF ~prev.in_uptrend /\ kind = "above"
                            THEN prev.above_count + 1 ELSE 0
             down == FlipsDown(prev, below_count)
             up == FlipsUp(prev, above_count)
         IN AtrRow(kind, FALSE,
                   IF down THEN FALSE ELSE IF up THEN TRUE ELSE prev.in_uptrend,
                   IF down THEN 0 ELSE below_count,
                   IF up THEN 0 ELSE above_count,
                   IF down \/ up THEN lock_candles ELSE prev.lock_counter,
                   "trend")

\* lines 194-202
final_state(rows) ==
    LET last == rows[Len(rows)]
    IN AtrState(last.in_uptrend, last.below_count, last.above_count, last.lock_counter)

\* lines 206-215
AtrSignal(rows) ==
    IF Len(rows) < 2 THEN "HOLD"
    ELSE LET last_row == rows[Len(rows)]
             prev_row == rows[Len(rows) - 1]
         IN IF ~prev_row.in_uptrend /\ last_row.in_uptrend THEN "BUY"
            ELSE IF prev_row.in_uptrend /\ ~last_row.in_uptrend THEN "SELL"
            ELSE "HOLD"

AtrIdle ==
    [pc |-> "idle", n |-> 1, lock_candles |-> 2, loaded |-> AtrDefault,
     rows |-> <<FirstRow(AtrDefault)>>, result |-> "HOLD"]

\* lines 68-128: load the state, read the frame, set up the first row
AtrLoad ==
    /\ atr.pc \in {"idle", "returned", "raised"}
    /\ \E n \in 1..MaxCandles, lock_candles \in LockCandlesPool :
          LET state == Loaded(AtrStateFile)
          IN atr' = [pc |-> "loop", n |-> n, lock_candles |-> lock_candles,
                     loaded |-> state, rows |-> <<FirstRow(state)>>,
                     result |-> "HOLD"]
    /\ UNCHANGED <<mgrVars, orchVars, exchVars, gw, lot, state_files, sig, events,
                   writer, wk, chat>>

\* lines 131-191: the next candle of the frame
AtrCandle ==
    /\ atr.pc = "loop"
    /\ Len(atr.rows) < atr.n
    /\ \E kind \in CandleKinds :
          atr' = [atr EXCEPT !.rows = Append(atr.rows,
                      LoopBody(atr.rows[Len(atr.rows)], kind, atr.lock_candles))]
    /\ UNCHANGED <<mgrVars, orchVars, exchVars, gw, lot, state_files, sig, events,
                   writer, wk, chat>>

\* lines 194-215: save_state and the signal. The values of final_state are
\* read from the frame with df.at; json.dump raises on one it cannot encode,
\* after open(..., "w") has emptied the file.
AtrSave ==
    /\ atr.pc = "loop"
    /\ Len(atr.rows) = atr.n
    /\ \E dumped \in BOOLEAN :
          /\ state_files' = [state_files EXCEPT ![AtrStateFile] =
                                IF dumped THEN Json(final_state(atr.rows)) ELSE Partial]
          /\ atr' = [atr EXCEPT !.pc = IF dumped THEN "returned" ELSE "raised",
                                !.result = IF dumped THEN AtrSignal(atr.rows) ELSE "HOLD"]
    /\ UNCHANGED <<mgrVars, orchVars, exchVars, gw, lot, sig, events, writer, wk, chat>>

InitAtr ==
    /\ mgrInit /\ orchInit /\ position_store = {}
    /\ open_orders = {} /\ cancel_requested = {} /\ gw = GwIdle /\ lot = NoLot
    /\ sig = <<>> /\ events = <<>> /\ writer = NoWrite /\ wk = NoWorker /\ chat = NoChat
    /\ state_files = [f \in StateFiles |-> Absent]
    /\ atr = AtrIdle

NextAtr == AtrLoad \/ AtrCandle \/ AtrSave

SpecAtr == InitAtr /\ [][NextAtr]_vars

\* ------------------------------------------------------------------------
\* SpecShutdown: the orchestrator process with the signal handler
\*   orchestrator.py 56-72 (handle_exit), 84-85 (installed after the connect),
\*   223-232 (main)
\* The handler runs on the main thread, on top of whatever frame the signal
\* interrupted; that frame does not run again: either sys.exit unwinds it
\* or the handler never returns.  A signal that arrives while main's finally
\* block is running is not explored.
\* ------------------------------------------------------------------------
\* where main_loop can be interrupted once the handlers are installed
Interruptible == cyc \notin {"connect", "handle_exit", "finally", "cleanup", "terminated"}

\* lines 56-69: cancel_all_open_orders, then the call of stop_all.  The
\* lock is as the interrupted frame left it.
HandleExit ==
    /\ Interruptible
    /\ cyc' = "handle_exit"
    /\ \E ok \in BOOLEAN :
          LET listed == list_open_orders(open_orders, ok)
          IN /\ cancel_requested' = cancel_requested \cup {o.orderId : o \in listed}
             /\ \E cancelled \in SUBSET listed : open_orders' = open_orders \ cancelled
    /\ mpc' = [mpc EXCEPT !["main"] = "sa_acq"]
    /\ marg' = [marg EXCEPT !["main"] = NoArg]
    /\ log' = "interruption_signal"
    /\ current_pos' = NonePos
    /\ decisions' = <<>>
    /\ di' = 0
    /\ direct_orders' = <<>>
    /\ new_strategy_ids' = <<>>
    /\ UNCHANGED <<active_strategies, runners, nextTid, lock, cycle_count, now,
                   position_store, data_json, new_position, pending, lastOrder,
                   prev_strategy_ids, gw, lot, workerVars>>

\* lines 70-72: stop_all has returned; clear_processed_output; sys.exit(0)
\* unwinds main_loop into main's finally block
HandlerExit ==
    /\ cyc = "handle_exit"
    /\ mpc["main"] = "idle"
    /\ cyc' = "finally"
    /\ log' = "sys_exit"
    /\ UNCHANGED <<extVars, mgrVars, cycle_count, now, position_store, current_pos,
                   data_json, decisions, di, direct_orders, new_strategy_ids,
                   new_position, pending, lastOrder, prev_strategy_ids>>

InitShutdown ==
    /\ mgrInit /\ orchInit /\ position_store = {}
    /\ open_orders \in {{}, OpenOrderPool}
    /\ cancel_requested = {}
    /\ gw = GwIdle /\ lot = NoLot
    /\ state_files = <<>> /\ sig = <<>> /\ events = <<>> /\ atr = <<>>
    /\ writer = NoWrite /\ wk = NoWorker /\ chat = NoChat

NextShutdown == Next \/ HandleExit \/ HandlerExit

SpecShutdown == InitShutdown /\ [][NextShutdown]_vars

\* ------------------------------------------------------------------------
\* Loading a state file
\*   strategies/atr_stop/atr_stop.py            load_state (lines 11-27)
\*   strategies/rsi/rsi_runner.py               load_rsi_state (lines 29-39)
\*   strategies/ma_crossover/ma_crossover.py    load_state (lines 24-32)
\*   trader_executor.py                         load_position_state (74-95)
\*   order_executor.py                          load_position_state (48-64)
\* ------------------------------------------------------------------------
\* who loads: the file, and whether os.path.exists is asked first
Loaders ==
    {[name |-> "atr_stop.load_state", file |-> AtrStateFile, exists_check |-> FALSE],
     [name |-> "rsi_runner.load_rsi_state", file |-> RsiStateFile, exists_check |-> TRUE],
     [name |-> "ma_crossover.load_state", file |-> MaCrossStateFile, exists_check |-> TRUE],
     [name |-> "trader_executor.load_position_state", file |-> PositionFile,
      exists_check |-> TRUE],
     [name |-> "order_executor.load_position_state", file |-> PositionFile,
      exists_check |-> TRUE]}

\* what open() and json.load() raise on a file with this content
ReadError(content) ==
    CASE content.k = "absent" -> "FileNotFoundError"
      [] content.k = "partial" -> "JSONDecodeError"
      [] OTHER -> "none"

\* mutant of Catches: the handler names the missing file only
CatchesMissingOnly(loader, exc) == exc = "FileNotFoundError"

\* `except Exception:` around the read in every loader
Catches(loader, exc) == exc \in {"FileNotFoundError", "JSONDecodeError"}

\* the value a loader returns without a document
DefaultOf(file) ==
    CASE file = PositionFile -> NonePos
      [] file = AtrStateFile -> AtrDefault
      [] OTHER -> SignalState("HOLD")

LoadReturned(v) == [kind |-> "return", v |-> v]
LoadRaised(exc) == [kind |-> "raise", exc |-> exc]

\* a call of the loader on the files as they are
Load(loader) ==
    LET content == Content(loader.file)
        exc == ReadError(content)
    IN IF loader.exists_check /\ content.k = "absent"
       THEN LoadReturned(DefaultOf(loader.file))
       ELSE IF exc = "none" THEN LoadReturned(Loaded(loader.file))
       ELSE IF Catches(loader, exc) THEN LoadReturned(DefaultOf(loader.file))
       ELSE LoadRaised(exc)

\* ------------------------------------------------------------------------
\* Signal worker threads, one thread and the caller that stops it
\*   strategy_manager.py                          StrategyRunner, stop_strategy
\*   strategies/rsi/rsi_runner.py                 RSIRunner
\*   strategies/bollinger/bollinger_runner.py     BollingerRunner
\*   strategies/macd/macd.py                      MACrossoverRunner
\*   strategies/atr_stop/atr_stop_runner.py       ATRStopRunner
\* Time is counted in seconds.  Computing takes no time; a connection, a
\* fetch (with its retries), a wait and a sleep may take time.
\* ------------------------------------------------------------------------
WorkerKinds == {"strategy", "rsi", "bollinger", "ma_crossover", "atr_stop"}

\* strategy_params as the caller passes them: every entry well-formed, an
\* expected entry missing, or an entry out of range (period = 0)
ParamPool == {"valid", "missing", "invalid"}

\* runner.join(timeout=5)
JoinTimeout == 5

\* interval_seconds, the default of each constructor
Interval(kind) ==
    CASE kind = "strategy" -> 10
      [] kind = "bollinger" -> 60
      [] OTHER -> 30

\* between two iterations: time.sleep, or stop_event.wait
PausePc(kind) == IF kind \in {"rsi", "atr_stop"} THEN "sleep" ELSE "wait"

\* mutant of ConstructorRaises: the RSI and ATR constructors validate too
ConstructorRaisesAll(kind, params) == kind # "strategy" /\ params = "invalid"

\* __init__: BollingerParams(**strategy_params) and
\* MACrossoverParams(**raw_params) raise ValidationError, which __init__
\* logs and raises again; the other constructors store the dict as it is
ConstructorRaises(kind, params) ==
    kind \in {"bollinger", "ma_crossover"} /\ params = "invalid"

\* the parameters the loop works with: pydantic defaults and
\* params.get(name, default) fill in a missing entry
EffectiveParams(params) == IF params = "missing" THEN "default" ELSE params

\* attempts of one fetch: tenacity stop_after_attempt(3); none for RSIRunner
FetchAttempts(kind) == IF kind = "rsi" THEN 1 ELSE 3

\* mutant of OnFetchError: the exception of the fetch leaves run()
OnFetchErrorEnds(kind) == "ended"

\* the except clauses of the loops: RSIRunner tests the loop condition
\* again at once (its sleep is inside the try), the others go on to their
\* wait
OnFetchError(kind) == IF kind = "rsi" THEN "top" ELSE "wait"

\* the data_json ATRStopRunner.run passes to run_strategy (line 52)
RunnerDataJson == ""

\* mutant of run_strategy_outcomes: the strategy answers without data
run_strategy_outcomes_any(data) == Signals

\* atr_stop.run_strategy, line 86: json.loads(data_json) raises on the
\* empty string; with a document the call returns a signal
run_strategy_outcomes(data) == IF data = "" THEN {"raise"} ELSE Signals

WorkerFrame ==
    <<mgrVars, exchVars, gw, lot, state_files, sig, events, atr, writer, chat>>

\* the constructor is called
WorkerConstruct ==
    /\ wk.pc = "none"
    /\ \E kind \in WorkerKinds, params \in ParamPool :
          wk' = [wk EXCEPT !.kind = kind, !.params = params,
                           !.pc = IF ConstructorRaises(kind, params)
                                  THEN "rejected" ELSE "created",
                           !.handle = IF ConstructorRaises(kind, params)
                                      THEN "none" ELSE "held"]
    /\ UNCHANGED <<WorkerFrame, orchVars>>

\* Thread.start(): run() begins; RSIRunner connects first
WorkerStart ==
    /\ wk.pc = "created"
    /\ wk' = [wk EXCEPT !.pc = IF wk.kind = "rsi" THEN "connect" ELSE "top"]
    /\ UNCHANGED <<WorkerFrame, orchVars>>

\* rsi_runner.py 105-109: a failed connection ends run() before the loop
WorkerConnect ==
    /\ wk.pc = "connect"
    /\ \E ok \in BOOLEAN : wk' = [wk EXCEPT !.pc = IF ok THEN "top" ELSE "ended"]
    /\ UNCHANGED <<WorkerFrame, orchVars>>

\* `while not self.stop_event.is_set():`
WorkerLoopTest ==
    /\ wk.pc = "top"
    /\ wk' = IF wk.stop_event THEN [wk EXCEPT !.pc = "ended"]
             ELSE IF wk.kind = "strategy"
             THEN [wk EXCEPT !.pc = "wait", !.remaining = Interval(wk.kind)]
             ELSE IF wk.kind = "atr_stop" THEN [wk EXCEPT !.pc = "act"]
             ELSE [wk EXCEPT !.pc = "fetch"]
    /\ UNCHANGED <<WorkerFrame, orchVars>>

\* the fetch of one iteration with its attempts; RSIRunner skips the
\* iteration on an empty frame and sleeps
WorkerFetch ==
    /\ wk.pc = "fetch"
    /\ \E attempts \in [1..FetchAttempts(wk.kind) -> {"ok", "empty", "raise"}] :
          LET good == \E i \in DOMAIN attempts : attempts[i] = "ok"
              last == attempts[FetchAttempts(wk.kind)]
          IN wk' = IF good THEN [wk EXCEPT !.pc = "act", !.fetched = "ok"]
                   ELSE IF wk.kind = "rsi" /\ last = "empty"
                   THEN [wk EXCEPT !.pc = "sleep", !.fetched = "empty",
                                   !.remaining = Interval(wk.kind)]
                   ELSE [wk EXCEPT !.pc = OnFetchError(wk.kind), !.fetched = "failed",
                                   !.remaining = Interval(wk.kind)]
    /\ UNCHANGED <<WorkerFrame, orchVars>>

\* the rest of the try block of RSIRunner, BollingerRunner and
\* MACrossoverRunner: the signal is computed; the two runners with a
\* callback call it; an exception is caught by the loop
WorkerCompute ==
    /\ wk.pc = "act"
    /\ wk.kind \in {"rsi", "bollinger", "ma_crossover"}
    /\ \E signal \in Signals, raised \in BOOLEAN :
          wk' = IF raised \/ (wk.kind = "rsi" /\ EffectiveParams(wk.params) = "invalid")
                THEN [wk EXCEPT !.pc = OnFetchError(wk.kind),
                                !.remaining = Interval(wk.kind)]
                ELSE [wk EXCEPT !.pc = PausePc(wk.kind),
                                !.remaining = Interval(wk.kind),
                                !.emitted = IF wk.kind = "rsi" THEN @ ELSE signal]
    /\ UNCHANGED <<WorkerFrame, orchVars>>

\* ATRStopRunner.run, lines 50-102: run_strategy, then the order the signal
\* asks for and the position file after it; an exception is caught; then
\* time.sleep
WorkerAtrAct ==
    /\ wk.pc = "act"
    /\ wk.kind = "atr_stop"
    /\ \E signal \in run_strategy_outcomes(RunnerDataJson), resp \in BOOLEAN :
          LET pos == load_position_state(position_store) IN
          IF signal = "BUY" /\ pos = NonePos
          THEN /\ wk' = [wk EXCEPT !.pc = "sleep", !.remaining = Interval(wk.kind),
                                   !.orders = 1]
               /\ position_store' =
                      IF resp
                      THEN WriteFile(position_store,
                                     Position("BUY", DefaultSize, 0, DateTime(now)))
                      ELSE position_store
          ELSE IF signal = "SELL" /\ pos # NonePos /\ pos.side = "BUY"
          THEN /\ wk' = [wk EXCEPT !.pc = "sleep", !.remaining = Interval(wk.kind),
                                   !.orders = 1]
               /\ position_store' = IF resp THEN RemoveFile(position_store)
                                    ELSE position_store
          ELSE /\ wk' = [wk EXCEPT !.pc = "sleep", !.remaining = Interval(wk.kind)]
               /\ UNCHANGED position_store
    /\ UNCHANGED <<WorkerFrame, cyc, cycle_count, now, current_pos, data_json, decisions,
                   di, direct_orders, new_strategy_ids, new_position, pending, lastOrder,
                   prev_strategy_ids, log>>

\* stop_event.wait(interval) returns when the event is set or the interval
\* has passed; time.sleep(interval) returns when the interval has passed
WorkerResume ==
    /\ \/ wk.pc = "wait" /\ (wk.stop_event \/ wk.remaining = 0)
       \/ wk.pc = "sleep" /\ wk.remaining = 0
    /\ wk' = [wk EXCEPT !.pc = "top", !.remaining = 0]
    /\ UNCHANGED <<WorkerFrame, orchVars>>

\* stop_strategy, lines 97-98: runner.stop(), and runner.join(timeout=5)
\* begins
WorkerStop ==
    /\ wk.handle = "held"
    /\ wk.pc \notin {"none", "rejected", "created"}
    /\ wk' = [wk EXCEPT !.stop_event = TRUE, !.handle = "joining", !.waited = 0]
    /\ UNCHANGED <<WorkerFrame, orchVars>>

\* the join returns, the thread ended or not, and line 99 deletes the
\* entry of the runner
WorkerJoinReturn ==
    /\ wk.handle = "joining"
    /\ wk.pc = "ended" \/ wk.waited = JoinTimeout
    /\ wk' = [wk EXCEPT !.handle = "dropped"]
    /\ UNCHANGED <<WorkerFrame, orchVars>>

\* a step that takes no time is enabled
WorkerUrgent ==
    \/ wk.pc \in {"top", "act"}
    \/ wk.pc = "wait" /\ (wk.stop_event \/ wk.remaining = 0)
    \/ wk.pc = "sleep" /\ wk.remaining = 0
    \/ wk.handle = "joining" /\ (wk.pc = "ended" \/ wk.waited = JoinTimeout)

\* one second passes
WorkerTick ==
    /\ ~WorkerUrgent
    /\ \/ wk.pc \in {"wait", "sleep"}
       \/ wk.handle = "joining"
    /\ wk' = [wk EXCEPT !.remaining = IF wk.pc \in {"wait", "sleep"} THEN @ - 1 ELSE @,
                        !.waited = IF wk.handle = "joining" THEN @ + 1 ELSE @]
    /\ UNCHANGED <<WorkerFrame, orchVars>>

InitWorker ==
    /\ mgrInit /\ orchInit /\ position_store = {}
    /\ open_orders = {} /\ cancel_requested = {} /\ gw = GwIdle /\ lot = NoLot
    /\ state_files = <<>> /\ sig = <<>> /\ events = <<>> /\ atr = <<>>
    /\ writer = NoWrite /\ wk = NoWorker /\ chat = NoChat

NextWorker ==
    \/ WorkerConstruct
    \/ WorkerStart
    \/ WorkerConnect
    \/ WorkerLoopTest
    \/ WorkerFetch
    \/ WorkerCompute
    \/ WorkerAtrAct
    \/ WorkerResume
    \/ WorkerStop
    \/ WorkerJoinReturn
    \/ WorkerTick

SpecWorker == InitWorker /\ [][NextWorker]_vars

\* ------------------------------------------------------------------------
\* The operator's Stop (remote_control/handlers.py, remote_control/bot_app.py)
\* next to the orchestrator.  The listener is its own program
\* (python -m remote_control.bot_app); orchestrator.py does not start it.
\* ------------------------------------------------------------------------
\* bot_app.py line 66: run_telegram_bot() is called without arguments, so
\* bot_data["handle_exit"] is the default of exit_callback
exit_callback == "None"

\* handlers.py 65-69: `if fn := ...: fn()` inside try/except Exception.
\* handle_exit(signum, frame) called without arguments raises TypeError,
\* which the handler reports to the operator.
CallExit(fn) == IF fn = "None" THEN "nothing" ELSE "exit_handler_error"

\* /stop, handlers.py 42-52
StopCmd ==
    /\ chat' = [awaiting_stop_confirm |-> TRUE, reply |-> "are_you_sure"]
    /\ chat' # chat
    /\ UNCHANGED <<mgrVars, orchVars, exchVars, gw, lot, state_files, sig, events, atr,
                   writer, wk>>

\* the job of line 52, thirty seconds after /stop
ClearConfirm ==
    /\ chat.awaiting_stop_confirm
    /\ chat' = [chat EXCEPT !.awaiting_stop_confirm = FALSE]
    /\ UNCHANGED <<mgrVars, orchVars, exchVars, gw, lot, state_files, sig, events, atr,
                   writer, wk>>

\* the texts that reach confirm_stop: register_handlers (line 150) gives it
\* the messages that match ^yes$ without regard to case
YesTexts == {"yes", "YES"}

\* str.strip().lower() on those texts
StripLower(text) == "yes"

\* a message that matches while a confirmation is awaited, handlers.py
\* 54-69; the "Stop cancelled." branch needs a text other than yes, which
\* the filter does not let through
ConfirmStop ==
    /\ chat.awaiting_stop_confirm
    /\ \E text \in YesTexts :
          chat' = [awaiting_stop_confirm |-> FALSE,
                   reply |-> IF StripLower(text) # "yes" THEN "stop_cancelled"
                             ELSE IF CallExit(exit_callback) = "exit_handler_error"
                             THEN "exit_handler_error"
                             ELSE "stopping_bot"]
    /\ UNCHANGED <<mgrVars, orchVars, exchVars, gw, lot, state_files, sig, events, atr,
                   writer, wk>>

NextRemote == NextShutdown \/ StopCmd \/ ClearConfirm \/ ConfirmStop

SpecRemote == InitShutdown /\ [][NextRemote]_vars

\* ------------------------------------------------------------------------
\* One cycle with a batch as json.loads returns it.  run_decision
\* (decision_llm/main.py 185-210) hands the parsed array to main_loop
\* without validating its items.
\* ------------------------------------------------------------------------
WithBad(dec, keys) == [dec EXCEPT !.bad = keys]

\* {"action": null}
DNullAction == WithBad(DHold, {"action"})
\* {} : no action key
DNoAction == Decision({}, "", "", 0, <<>>, <<>>)
\* {"action": "DIRECT_ORDER", "side": "BUY", "size": "abc"}
DBadSize == WithBad(DOrder("BUY", 1), {"size"})
\* {"action": "DIRECT_ORDER", "side": null, "size": 1}
DNullSide == WithBad(DOrder("BUY", 1), {"side"})
\* {"action": "DIRECT_ORDER", "side": "LONG", "size": 1}
DUnknownSide == DOrder("LONG", 1)

MalformedPool == {DNullAction, DNoAction, DBadSize, DNullSide, DUnknownSide, DUnknown}

AnyBatches ==
    UNION {[1..n -> MalformedPool \cup {DHold, DOrder("BUY", 1), DOrder("SELL", 1)}] :
              n \in 1..MaxBatch}

\* orchestrator.py 155-168: ', '.join(decision_summary) raises TypeError
\* when an action that is no string was appended
SummaryRaises(batch) == \E i \in 1..Len(batch) : "action" \in batch[i].bad

\* lines 136-173 with any parsed batch
DecideAny ==
    /\ cyc = "llm"
    /\ \E batch \in AnyBatches :
          IF SummaryRaises(batch)
          THEN /\ cyc' = "finally"
               /\ log' = "summary_type_error"
               /\ decisions' = batch
               /\ UNCHANGED <<di, direct_orders, new_strategy_ids>>
          ELSE /\ decisions' = batch
               /\ di' = 0
               /\ direct_orders' = <<>>
               /\ new_strategy_ids' = <<>>
               /\ cyc' = "partition"
               /\ log' = "decisions"
    /\ UNCHANGED <<extVars, mgrVars, cycle_count, now, position_store, current_pos, data_json,
                   new_position, pending, lastOrder, prev_strategy_ids>>

NextAny ==
    \/ Connect
    \/ CycleStart
    \/ Collect
    \/ News
    \/ DecideAny
    \/ Partition
    \/ PartitionDone
    \/ ProcessDecision
    \/ PostDirect
    \/ CycleEnd
    \/ Sleep
    \/ Finally
    \/ Terminate
    \/ acquire_lock("main")
    \/ update_strategies_body("main")
    \/ update_strategies_loop("main")
    \/ stop_all_loop("main")

SpecAny == Init /\ [][NextAny]_vars

\* SpecShutdown with every enabled step eventually taken: the main thread
\* is scheduled, and a handler that can go on does go on
FairShutdown == SpecShutdown /\ WF_vars(NextShutdown)

\* ------------------------------------------------------------------------
\* SpecRace: the orchestrator's cycle and an ATRStopRunner thread, both
\* working on position_state.json
\*   orchestrator.py 92-221, trader_executor.py 110-199,
\*   strategies/atr_stop/atr_stop_runner.py 47-105
\* The oracle answers with direct decisions only.
\* ------------------------------------------------------------------------
DirectBatches ==
    UNION {[1..n -> {DHold, DOrder("BUY", 1), DOrder("SELL", 1)}] : n \in 0..MaxBatch}

\* ATRStopRunner(strategy_params) has been constructed
AtrWorkerCreated ==
    [NoWorker EXCEPT !.kind = "atr_stop", !.params = "valid", !.pc = "created",
                     !.handle = "held"]

InitRace ==
    /\ mgrInit /\ orchInit /\ position_store \in InitStores
    /\ open_orders = {} /\ cancel_requested = {} /\ gw = GwIdle /\ lot = NoLot
    /\ state_files = <<>> /\ sig = <<>> /\ events = <<>> /\ atr = <<>>
    /\ writer = NoWrite /\ wk = AtrWorkerCreated /\ chat = NoChat

NextRace ==
    \/ Connect
    \/ CycleStart
    \/ Collect
    \/ News
    \/ DecideFrom(DirectBatches)
    \/ Partition
    \/ PartitionDone
    \/ ProcessDecision
    \/ PostDirect
    \/ CycleEnd
    \/ Sleep
    \/ Finally
    \/ Terminate
    \/ acquire_lock("main")
    \/ update_strategies_body("main")
    \/ update_strategies_loop("main")
    \/ stop_all_loop("main")
    \/ WorkerStart
    \/ WorkerLoopTest
    \/ WorkerAtrAct
    \/ WorkerResume
    \/ WorkerTick

SpecRace == InitRace /\ [][NextRace]_vars

\* ------------------------------------------------------------------------
\* SpecIds: the orchestrator's cycle with batches of STRATEGY decisions
\* whose names and parameter dicts are close to one another
\*   orchestrator.py 175-194, strategy_manager.py 11-18, 77-89
\* ------------------------------------------------------------------------
\* the str "14" and a str that holds the separators of the identity
Str14 == StrV(<<"1", "4">>)
Str14b2 == StrV(<<"1", "4", "_", "b", "-", "2">>)

IdCalls ==
    {<<NameRsi, <<<<KeyA, IntV(14)>>>>>>,
     <<NameRsi, <<<<KeyA, Str14>>>>>>,
     <<NameRsi, ParamsAB>>,
     <<NameRsi, ParamsBA>>,
     <<NameRsi, <<<<KeyA, Str14b2>>>>>>,
     <<NameMacd, ParamsA>>}

IdBatches == UNION {[1..n -> {DStrategy("STRATEGY", sc) : sc \in IdCalls}] : n \in 1..MaxBatch}

NextIds ==
    \/ Connect
    \/ CycleStart
    \/ Collect
    \/ News
    \/ DecideFrom(IdBatches)
    \/ Partition
    \/ PartitionDone
    \/ CycleEnd
    \/ Sleep
    \/ Finally
    \/ Terminate
    \/ acquire_lock("main")
    \/ start_strategy_body("main")
    \/ update_strategies_body("main")
    \/ update_strategies_loop("main")
    \/ stop_all_loop("main")
    \/ \E t \in DOMAIN runners : RunnerExit(t)

SpecIds == Init /\ [][NextIds]_vars

\* ------------------------------------------------------------------------
\* SpecChat: the /stop dialogue of one chat with its clock
\*   remote_control/handlers.py 41-69, 142-161; bot_app.py 18-34
\* Time is counted in steps of ten seconds.  A job of the job queue runs
\* when its time has come, before the clock goes on; a message that
\* arrives at that very moment is handled before or after it.
\* Besides chat_data the record keeps what the claims speak of: the time
\* since the most recent /stop, whether a YES has come since, the kind of
\* the last update and whether handling it called the exit handler.
\* ------------------------------------------------------------------------
\* run_once(_clear, 30, ...), in steps of ten seconds
ConfirmWindow == 3

\* build_app(strategy_manager, exit_callback): a callable, or the default
ExitCallbacks == {"None", "callable"}

ChatIdle(fn) ==
    [awaiting_stop_confirm |-> FALSE, reply |-> "", jobs |-> {}, handle_exit |-> fn,
     since |-> -1, answered |-> FALSE, last |-> "", invoked |-> FALSE]

ChatFrame ==
    <<mgrVars, orchVars, exchVars, gw, lot, state_files, sig, events, atr, writer, wk>>

\* /stop: handlers.py 42-52.  Every call queues its own _clear job; the jobs
\* queued by earlier calls stay in the queue.
stop_cmd ==
    /\ chat' = [chat EXCEPT !.awaiting_stop_confirm = TRUE,
                            !.reply = "are_you_sure",
                            !.jobs = @ \cup {ConfirmWindow},
                            !.since = 0, !.answered = FALSE,
                            !.last = "stop", !.invoked = FALSE]
    /\ UNCHANGED ChatFrame

\* _clear, lines 49-50, run by the job queue when thirty seconds are over
clear_job ==
    /\ 0 \in chat.jobs
    /\ chat' = [chat EXCEPT !.awaiting_stop_confirm = FALSE, !.jobs = @ \ {0},
                            !.last = "job", !.invoked = FALSE]
    /\ UNCHANGED ChatFrame

\* a message matching ^yes$: confirm_stop, lines 55-69
confirm_stop ==
    /\ \E text \in YesTexts :
          chat' = IF ~chat.awaiting_stop_confirm
                  THEN [chat EXCEPT !.reply = "", !.answered = TRUE,
                                    !.last = "yes", !.invoked = FALSE]
                  ELSE [chat EXCEPT !.awaiting_stop_confirm = FALSE,
                                    !.reply = IF StripLower(text) # "yes"
                                              THEN "stop_cancelled"
                                              ELSE IF CallExit(chat.handle_exit) = "nothing"
                                              THEN "stopping_bot"
                                              ELSE "exit_handler_error",
                                    !.answered = TRUE,
                                    !.last = "yes",
                                    !.invoked = (StripLower(text) = "yes"
                                                 /\ chat.handle_exit # "None")]
    /\ UNCHANGED ChatFrame

\* any other text: fallback, lines 142-144
fallback ==
    /\ chat' = [chat EXCEPT !.reply = "unknown_command", !.last = "text",
                            !.invoked = FALSE]
    /\ UNCHANGED ChatFrame

\* ten seconds pass
ChatTick ==
    /\ 0 \notin chat.jobs
    /\ chat.jobs # {} \/ chat.since \in 0..ConfirmWindow
    /\ chat' = [chat EXCEPT !.jobs = {j - 1 : j \in @},
                            !.since = IF @ \in 0..ConfirmWindow THEN @ + 1 ELSE @]
    /\ UNCHANGED ChatFrame

InitChat ==
    /\ mgrInit /\ orchInit /\ position_store = {}
    /\ open_orders = {} /\ cancel_requested = {} /\ gw = GwIdle /\ lot = NoLot
    /\ state_files = <<>> /\ sig = <<>> /\ events = <<>> /\ atr = <<>>
    /\ writer = NoWrite /\ wk = NoWorker
    /\ \E fn \in ExitCallbacks : chat = ChatIdle(fn)

NextChat == stop_cmd \/ clear_job \/ confirm_stop \/ fallback \/ ChatTick

SpecChat == InitChat /\ [][NextChat]_vars

\* ------------------------------------------------------------------------
\* Properties
\* ------------------------------------------------------------------------
\* C1: at most one live worker thread (started, not yet terminated) exists
\* per strategy identity, in every reachable state of the StrategyManager
\* under any interleaving of its methods.
C1_OneLiveWorkerPerIdentity ==
    \A sid \in SidPool : Cardinality(LiveWorkers(sid)) <= 1

\* C2: a cycle that has begun its reconcile step finishes it, and then the
\* active identities are exactly the identities of the STRATEGY decisions of
\* the batch (requested ones running, the others stopped and removed).
C2_ReconcileMatchesBatch ==
    (cyc = "reconcile")
        ~> (cyc = "sleep" /\ DOMAIN active_strategies = RequestedIds(decisions))

InThisCycle == cyc \in {"partition", "direct", "direct_error", "reconcile"}

SameSetAsLastCycle ==
    /\ prev_strategy_ids.valid
    /\ RequestedIds(decisions) = prev_strategy_ids.ids

\* C3: when a cycle asks for the identity set the previous cycle reconciled,
\* no step of the cycle stops, starts or restarts a worker: every identity
\* keeps its thread.
C3_SameSetIdempotent ==
    [][(InThisCycle /\ SameSetAsLastCycle)
          => (active_strategies' = active_strategies /\ runners' = runners)]_vars

C3_Witness ==
    /\ cyc = "reconcile"
    /\ mpc["main"] = "idle"
    /\ SameSetAsLastCycle
    /\ prev_strategy_ids.ids # {}
    /\ DOMAIN active_strategies = prev_strategy_ids.ids

\* pairs of STRATEGY decisions of the batch with the same name and the same
\* params dict, whatever the order of its keys
TwinDecisions ==
    {pr \in (1..Len(decisions)) \X (1..Len(decisions)) :
        /\ pr[1] < pr[2]
        /\ IsStrategy(decisions[pr[1]]) /\ IsStrategy(decisions[pr[2]])
        /\ decisions[pr[1]].strategy_name = decisions[pr[2]].strategy_name
        /\ Range(decisions[pr[1]].params) = Range(decisions[pr[2]].params)}

PartitionOver == cyc \in {"direct", "direct_error", "reconcile", "sleep"}

\* C4: two STRATEGY decisions of one batch with the same name and identical
\* params (in any key order) get the same identity, and once the batch has
\* been partitioned exactly one worker runs for it.
C4_TwinsShareOneWorker ==
    PartitionOver =>
        \A pr \in TwinDecisions :
            LET a == decisions[pr[1]]
                b == decisions[pr[2]]
                sid == InlineStrategyId(a.strategy_name, a.params)
            IN /\ make_strategy_id(a.strategy_name, a.params) = sid
               /\ make_strategy_id(b.strategy_name, b.params) = sid
               /\ sid \in DOMAIN active_strategies
               /\ Cardinality(LiveWorkers(sid)) = 1

C4_Witness ==
    /\ cyc = "sleep"
    /\ \E pr \in TwinDecisions : decisions[pr[1]].params # decisions[pr[2]].params
    /\ Cardinality(DOMAIN runners) = 1

\* a step of process_multiple_decisions that has placed an order
OrderStep == cyc = "direct" /\ pending # <<>> /\ lastOrder'.placed

Filled(order) == order.result.kind = "resp" /\ order.result.status = "FILLED"

\* C5: an order that fails, is rejected or is not reported FILLED leaves the
\* persisted Position as it was before the decision.
C5_FailedOrderKeepsPosition ==
    [][(OrderStep /\ ~Filled(lastOrder')) => position_store' = position_store]_vars

\* what the claim expects of a filled order on the tracked records
ExpectedAfterFill(store, order, price, t) ==
    IF order.side = "BUY"
    THEN {Serialized(Position("BUY", order.size, price, DateTime(t)))}
    ELSE {[p EXCEPT !.size = p.size - order.size] : p \in {q \in store : q.size > order.size}}

\* C6: a filled BUY creates or overwrites the record with the bought size; a
\* filled SELL deletes the record when the sold size covers the tracked size
\* and otherwise keeps it with its size reduced by the sold size.
C6_FillUpdatesTrackedPosition ==
    [][(OrderStep /\ Filled(lastOrder'))
          => position_store' =
                 ExpectedAfterFill(position_store, lastOrder',
                                   get_current_price_from_data(data_json), now)]_vars

\* C7 as stated: two transient errors, the third attempt would be accepted
\* - the order is attempted a third time and place_order returns the response.
C7_ThirdAttemptSucceeds ==
    (lastOrder.placed /\ lastOrder.script = <<"api_error", "api_error", "FILLED">>)
        => lastOrder.result = Returned("FILLED", 3)

\* C7: one transient error, the second attempt accepted - place_order
\* returns the response of the second attempt and the store holds the
\* position the filled order leads to; two transient errors - place_order
\* re-raises after the second attempt and the store is left alone.
C7_SecondAttemptSucceeds ==
    [][OrderStep =>
          /\ (lastOrder'.script = <<"api_error", "FILLED">>) =>
                /\ lastOrder'.result = Returned("FILLED", 2)
                /\ position_store' =
                       ExpectedAfterFill(IF new_position = NonePos THEN {} ELSE {new_position},
                                         lastOrder',
                                         get_current_price_from_data(data_json), now)
          /\ (Len(lastOrder'.script) >= 2 /\ lastOrder'.script[1] = "api_error"
                  /\ lastOrder'.script[2] = "api_error") =>
                /\ lastOrder'.result = Raised(2)
                /\ position_store' = position_store]_vars

C7_Witness ==
    /\ lastOrder.placed
    /\ lastOrder.side = "BUY"
    /\ lastOrder.script = <<"api_error", "FILLED">>
    /\ lastOrder.result.attempts = 2
    /\ \E p \in position_store : p.size = lastOrder.size /\ p.timestamp.h = now

\* C8: the Position Store holds zero or one record, and a record always has
\* side BUY.
C8_AtMostOneBuyRecord ==
    /\ Cardinality(position_store) <= 1
    /\ \A p \in position_store : p.side = "BUY"

C8_Witness ==
    /\ cycle_count = 2
    /\ lastOrder.placed /\ lastOrder.side = "SELL" /\ Filled(lastOrder)
    /\ \E p \in position_store : p.timestamp.h = now

InCycleAfterLoad ==
    cyc \in {"collect", "news", "llm", "partition", "direct", "direct_error", "reconcile"}

\* C9: from the moment market data is gathered to the end of the cycle no
\* position older than the TTL is held, on file or in current_pos: one that
\* was older at the start of the cycle has been purged and its file removed.
C9_ExpiredPurgedBeforeCycle ==
    InCycleAfterLoad =>
        /\ \A p \in position_store : now - p.timestamp.h <= TTL
        /\ current_pos # NonePos => now - current_pos.timestamp.h <= TTL

C9_Witness ==
    /\ cyc = "collect"
    /\ log = "position_invalidated"
    /\ position_store = {}
    /\ current_pos = NonePos

AtBoundary == \E p \in position_store : now - p.timestamp.h = TTL

\* C10 as stated: a position exactly TTL old at the start of a cycle is
\* purged.
C10_BoundaryPurged ==
    [][(cyc = "load" /\ cyc' = "collect" /\ AtBoundary)
          => (position_store' = {} /\ current_pos' = NonePos)]_vars

\* C10: a position exactly TTL old at the start of a cycle is kept: its file
\* stays and it becomes current_pos.
C10_BoundaryKept ==
    [][(cyc = "load" /\ cyc' = "collect" /\ AtBoundary)
          => /\ position_store' = position_store
             /\ current_pos' # NonePos
             /\ current_pos' = load_position_state(position_store)]_vars

C10_Witness ==
    /\ cyc = "collect"
    /\ current_pos # NonePos
    /\ now - current_pos.timestamp.h = TTL
    /\ Cardinality(position_store) = 1

\* C11: a direct order whose size_pct is negative or greater than 1 is
\* treated as HOLD by the gateway: the decision does not go on to an order
\* and the position (the file and new_position) stays as it was.
OutOfRange(pct) == pct # NonePct /\ (RatLess(pct, Zero) \/ RatLess(One, pct))

GwHeadOutOfRange ==
    /\ gw.pc = "loop"
    /\ pending # <<>>
    /\ Get(Head(pending), "action", "HOLD") = "DIRECT_ORDER"
    /\ OutOfRange(Get(Head(pending), "size_pct", NonePct))

C11_OutOfRangePctIsHold ==
    [][GwHeadOutOfRange =>
          /\ gw'.pc # "cleanup"
          /\ position_store' = position_store
          /\ new_position' = new_position]_vars

C14_ConflictsCancelledFirst ==
    [][(gw.pc = "place" /\ gw'.pc # "place") =>
          \A o \in open_orders : o.side # gw.side => o.orderId \in cancel_requested]_vars

\* C13: the quantity place_order sends is the largest multiple of the
\* LOT_SIZE step that does not exceed the requested size - a multiple of the
\* step, never greater than the requested size - for every requested size
\* and step.
LotSent == lot.pc = "sent" /\ lot.stepSize # NoFilter

LargestMultipleBelow ==
    /\ lot.sent % lot.stepSize.units = 0
    /\ lot.sent <= lot.quantity
    /\ lot.quantity - lot.sent < lot.stepSize.units

C13_TruncatedToStep == LotSent => LargestMultipleBelow

\* C13, amended: the same for every requested size that is not negative
C13_TruncatedToStepNonNegative ==
    (LotSent /\ lot.quantity >= 0) => LargestMultipleBelow

C13_Witness ==
    /\ LotSent
    /\ lot.quantity = 7
    /\ lot.stepSize = LotStep(5, 1)
    /\ lot.sent = 5

\* C15: a poll of a signal worker emits a signal event (a callback
\* invocation or a non-HOLD result) only when the signal it computed differs
\* from the signal state it started from.
PollStep == sig'.seq # sig.seq

C15_EmitOnlyOnChange ==
    [][(PollStep /\ events' # <<>>) => sig'.computed # sig'.previous]_vars

\* C18: a worker starts each poll from the signal state it left behind
\* itself (the defaults on its first poll), never from a state another
\* worker wrote.
C18_StatePrivateToIdentity ==
    [][PollStep => sig'.previous = sig.known[sig'.worker]]_vars

\* C16: a StrategyState that was written is read back as written, and when
\* the process stops during the write a later read finds the file with the
\* previous content or with the new one, never cut off (and so never reset
\* to the defaults).
OnStrategyState == writer.pc # "idle" /\ writer.saver.file # PositionFile

C16_StateWriteAtomic ==
    /\ (OnStrategyState /\ writer.pc = "saved") => Loaded(writer.saver.file) = writer.value
    /\ (OnStrategyState /\ writer.pc = "crashed") =>
           Content(writer.saver.file) \in {writer.old, Json(writer.value)}

\* C17: every save of the Position is made under the position lock and
\* through a temp file and a rename, so that when the process stops during
\* the save the file holds the old record or the new one, complete.
OnPosition == writer.pc # "idle" /\ writer.saver.file = PositionFile

C17_PositionWriteLockedAtomic ==
    /\ (OnPosition /\ Writing) => (writer.saver.locked /\ writer.saver.temp)
    /\ (OnPosition /\ writer.pc = "crashed") =>
           Content(PositionFile) \in {writer.old, Json(writer.value)}

\* C19: in an uptrend, with consecutive_candles = 2, candles that do not gap
\* and close below the lower band flip the trend on the second of them, not
\* on the first and not on the third; the flip sets lock_counter to
\* lock_candles; none of the next lock_candles candles flips the trend; and
\* the lock_counter found in the state file after the run is the number of
\* lock candles that remain.
RECURSIVE BelowStreak(_, _)
\* how many candles of the run, up to row k, closed below the band in a row
\* while the trend was up; a gap candle and a locked candle are passed over
BelowStreak(rows, k) ==
    IF k <= 1 THEN 0
    ELSE IF rows[k].kind = "gap" \/ rows[k].locked THEN BelowStreak(rows, k - 1)
    ELSE IF rows[k - 1].in_uptrend /\ rows[k].kind = "below"
         THEN 1 + BelowStreak(rows, k - 1)
    ELSE 0

\* the candles after row j up to row k that do not gap
NonGap(rows, j, k) == Cardinality({m \in (j + 1)..k : rows[m].kind # "gap"})

Flipped(rows, k) == k > 1 /\ rows[k].in_uptrend # rows[k - 1].in_uptrend

\* the lock candles that remain after the last row
LockRemaining ==
    LET rows == atr.rows
        flips == {k \in 1..Len(rows) : Flipped(rows, k)}
        last == IF flips = {} THEN 1 ELSE CHOOSE k \in flips : \A m \in flips : m <= k
        start == IF flips = {} THEN atr.loaded.lock_counter ELSE atr.lock_candles
        used == NonGap(rows, last, Len(rows))
    IN IF used >= start THEN 0 ELSE start - used

C19_FlipOnSecondCandle ==
    LET rows == atr.rows
    IN /\ \A k \in 2..Len(rows) :
             (rows[k].kind = "below" /\ ~rows[k].locked /\ rows[k - 1].in_uptrend) =>
                 /\ BelowStreak(rows, k) = 1 => rows[k].in_uptrend
                 /\ BelowStreak(rows, k) = 2 =>
                        (~rows[k].in_uptrend /\ rows[k].lock_counter = atr.lock_candles)
                 /\ BelowStreak(rows, k) <= 2
       /\ \A j \in 2..Len(rows) : \A k \in j..Len(rows) :
             (Flipped(rows, j) /\ NonGap(rows, j, k) <= atr.lock_candles) =>
                 rows[k].in_uptrend = rows[j].in_uptrend
       /\ atr.pc \in {"returned", "raised"} =>
             Loaded(AtrStateFile).lock_counter = LockRemaining

\* C20: stop_all always returns and leaves the active map empty, whether
\* there are active workers or none, and so does a second call right after
\* the first; on the way out (handle_exit calls stop_all, sys.exit, main's
\* finally block calls stop_all again) both calls complete.  "Returns" is
\* stated as safety: stop_all never waits for a lock that the thread
\* calling it holds.
StopAllSelfBlocked == mpc["main"] = "sa_acq" /\ lock = "main"

StopAllReturns == mpc["main"] = "sa_loop" /\ mpc'["main"] = "idle"

C20_StopAllIdempotentReturns ==
    /\ [](~StopAllSelfBlocked)
    /\ [][StopAllReturns => (DOMAIN active_strategies' = {} /\ lock' = "free")]_vars

\* a DIRECT_ORDER decision of this cycle's batch has not been executed yet
DirectOrderOutstanding ==
    \/ /\ cyc = "partition"
       /\ \E i \in 1..Len(decisions) :
             normalize_action(Get(decisions[i], "action", "HOLD")) = "DIRECT_ORDER"
    \/ /\ cyc = "direct"
       /\ \E i \in 1..Len(pending) : Get(pending[i], "action", "HOLD") = "DIRECT_ORDER"

WorkerStarted == nextTid' # nextTid

WorkerStopped == \E sid \in DOMAIN active_strategies : sid \notin DOMAIN active_strategies'

\* C24: within one cycle every direct order of the batch has been executed
\* before the Strategy Manager starts a new worker or stops a superseded one
\* for that batch.
C24_DirectOrdersBeforeReconcile ==
    [][(WorkerStarted \/ WorkerStopped) => ~DirectOrderOutstanding]_vars

\* C26: a failure of an external step of a cycle (market data, news, the
\* decision oracle, exchange I/O) never ends the process; main_loop is left
\* only when the connection at startup fails.
C26_OnlyStartupHalts ==
    cyc = "finally" => log = "connect_error"

\* C29: when a strategy state file or the position file exists but cannot
\* be parsed, every loader returns its default state (no position for the
\* position file) and raises nothing.
C29_CorruptFileLoadsDefault ==
    \A loader \in Loaders :
        Content(loader.file).k = "partial"
            => Load(loader) = LoadReturned(DefaultOf(loader.file))

\* the process was stopped while a state file and the position file were
\* being written, and runs again with both files cut off
C29_Witness ==
    /\ writer.pc = "idle"
    /\ Content(PositionFile).k = "partial"
    /\ Content(AtrStateFile).k = "partial"

\* C21: once stop_strategy or stop_all has set the stop signal of a worker,
\* waited for it and dropped its handle, the worker has left its loop: no
\* worker keeps polling after its handle was dropped.
C21_DroppedWorkerHasEnded ==
    wk.handle = "dropped" => wk.pc = "ended"

LoopPcs == {"top", "fetch", "act", "wait", "sleep"}

\* C27: a fetch that fails inside an iteration of a signal worker (its
\* attempts used up) only skips the iteration: nothing is emitted or
\* ordered, the thread goes on to its next loop test or its wait, and the
\* loop is left only when the stop event is set.
C27_FailedFetchSkipsIteration ==
    /\ [][(wk.pc = "fetch" /\ wk'.pc # "fetch" /\ wk'.fetched = "failed")
             => (/\ wk'.pc \in {"top", "wait"}
                 /\ wk'.emitted = wk.emitted
                 /\ wk'.orders = wk.orders)]_vars
    /\ [][(wk.pc \in LoopPcs /\ wk'.pc = "ended") => wk.stop_event]_vars

\* a Bollinger worker is at its next fetch after a failed one
C27_Witness ==
    /\ wk.kind = "bollinger"
    /\ wk.pc = "fetch"
    /\ wk.fetched = "failed"
    /\ ~wk.stop_event

C30_InvalidParamsRejected ==
    wk.params = "invalid" => wk.pc \in {"none", "rejected"}

ShutdownPcs == {"handle_exit", "finally", "cleanup", "terminated"}

\* handle_exit waits in stop_all for the lock the interrupted frame holds
HandlerBlocked == cyc = "handle_exit" /\ mpc["main"] = "sa_acq" /\ lock = "main"

ShutdownKeepsOut ==
    cyc \in ShutdownPcs
        => /\ cyc' \in ShutdownPcs
           /\ lastOrder' = lastOrder
           /\ cycle_count' = cycle_count
           /\ nextTid' = nextTid

HandlerDoneClean ==
    (cyc = "finally" /\ log = "sys_exit")
        => /\ open_orders = {}
           /\ DOMAIN active_strategies = {}
           /\ \A t \in DOMAIN runners : runners[t].stop_event

\* C22: once handle_exit is entered the orchestrator places no order,
\* starts no cycle and no worker and never runs a cycle again; the handler
\* gets through, and when it leaves the open orders are cancelled, the
\* active map is empty and every worker has been told to stop.
C22_ShutdownTerminalAndClean ==
    /\ [][ShutdownKeepsOut]_vars
    /\ [](~HandlerBlocked)
    /\ [](HandlerDoneClean)

\* the handler of SIGINT / SIGTERM is entered
OsSignalStep == cyc # "handle_exit" /\ cyc' = "handle_exit"

\* the operator confirms /stop with YES
OperatorStopStep ==
    /\ chat.awaiting_stop_confirm
    /\ chat'.reply \in {"stopping_bot", "exit_handler_error"}
    /\ ~chat'.awaiting_stop_confirm

\* C23: a shutdown signal that arrives while the orchestrator is in its
\* inter-cycle wait (a termination signal of the OS, or the operator's
\* confirmed Stop) ends the wait at once and starts the shutdown sequence;
\* the wait does not go on for the rest of the interval.
C23_ShutdownSignalEndsWait ==
    /\ [][(cyc = "sleep" /\ (OsSignalStep \/ OperatorStopStep))
             => (cyc' = "handle_exit" /\ now' = now)]_vars
    /\ [][(cyc \in ShutdownPcs) => (now' = now)]_vars

\* the decisions behind the one that raised are never looked at
RestAbandoned == cyc = "direct_error" /\ log = "decision_raised" /\ Len(pending) > 1

\* C25: a malformed decision of a batch (unknown action, missing action or
\* an action that is no string, a size that is no number, unknown side)
\* touches that decision only: main_loop is not left because of it and the
\* other decisions of the batch are still processed.
C25_MalformedDecisionIsolated ==
    log # "summary_type_error" /\ ~RestAbandoned

\* C31: in atr_stop a candle that gaps more than gap_threshold from the
\* previous close leaves in_uptrend and the two consecutive-candle counters
\* as the previous candle had them, while its final_upper and final_lower
\* are set to the candle's own basic bands.
C31_GapCandleIgnoredForFlip ==
    \A i \in 2..Len(atr.rows) :
        atr.rows[i].kind = "gap" =>
            /\ atr.rows[i].in_uptrend = atr.rows[i - 1].in_uptrend
            /\ atr.rows[i].below_count = atr.rows[i - 1].below_count
            /\ atr.rows[i].above_count = atr.rows[i - 1].above_count
            /\ atr.rows[i].bands = "basic"

\* a gap candle after a candle that closed below the band: without the gap
\* rule the counter would have been reset or raised
C31_Witness ==
    /\ Len(atr.rows) >= 3
    /\ atr.rows[3].kind = "gap"
    /\ atr.rows[2].below_count = 1
    /\ atr.rows[3].below_count = 1

\* C32: a strategy signal function given a series shorter than its indicator
\* window returns HOLD and does not raise; for atr_stop.run_strategy, whose
\* window is the ATR period: a call on fewer than Period candles that
\* returns, returns HOLD.
C32_ShortSeriesHolds ==
    (atr.pc = "returned" /\ atr.n < Period) => atr.result = "HOLD"

\* the batch handed to process_multiple_decisions holds HOLD decisions only
HoldOnlyBatch ==
    /\ direct_orders # <<>>
    /\ \A i \in 1..Len(direct_orders) : direct_orders[i].action = "HOLD"

\* C33: a cycle whose direct-decision batch holds only HOLD decisions leaves
\* the persisted Position as it was: the step after process_multiple_decisions
\* neither removes nor rewrites the position file.
C33_HoldOnlyKeepsPosition ==
    [][(cyc = "direct" /\ cyc' = "reconcile" /\ HoldOnlyBatch)
          => (position_store' = position_store)]_vars

\* C34: update_strategies always terminates and releases the manager lock,
\* also when an active identity is absent from new_ids; stated as safety: no
\* caller ever waits, at the `with self.lock:` of stop_strategy, for the
\* lock that it holds itself (a wait that no step can end).
C34_UpdateNeverSelfBlocks ==
    \A c \in Callers : ~(mpc[c] = "stop_acq" /\ lock = c)

\* C35: handle_exit, entered at whatever point of the cycle the signal
\* arrives (also while the interrupted frame is inside a StrategyManager
\* method and holds the manager lock), runs to completion: it gets through
\* stop_all and reaches sys.exit, which unwinds into main's finally block.
C35_HandlerRunsToCompletion ==
    (cyc = "handle_exit") ~> (cyc = "finally" /\ log = "sys_exit")

\* the Position as a reader of the file sees a record that was written
View(pos) ==
    IF pos = NonePos THEN NonePos
    ELSE [pos EXCEPT !.timestamp = fromisoformat(pos.timestamp)]

\* a step of process_multiple_decisions that submits an order, writes the
\* position file or removes it
GatewayActs ==
    /\ cyc = "direct"
    /\ wk' = wk
    /\ lastOrder'.placed \/ position_store' # position_store

MaCrossCall ==
    /\ sig'.seq # sig.seq
    /\ sig'.worker \in {"ma_crossover", "macd_runner"}

\* C37: the signals other than HOLD that ma_crossover.run_strategy returns
\* over a sequence of polls alternate strictly between BUY and SELL (the
\* one returned is never the one returned last before it), and a poll that
\* computes HOLD leaves the persisted last_signal as it was.
C37_SignalsAlternate ==
    /\ [][MaCrossCall => (Result(sig.returned) \notin Range(events'))]_vars
    /\ [][(MaCrossCall /\ sig'.computed = "HOLD") =>
             (load_state(state_files', MaCrossStateFile)
                 = load_state(state_files, MaCrossStateFile))]_vars

\* C38: between two consecutive iterations of a runner's loop the worker
\* waits its polling interval or is woken by stop, also when the iteration
\* raised: the body of an iteration is always left for the pause (never
\* straight for the next loop test), and the pause ends only when the
\* interval has passed or, for an interruptible wait, when stop was set.
C38_PauseBetweenIterations ==
    /\ [][(wk.pc \in {"fetch", "act"} /\ wk'.pc \notin {"fetch", "act"})
             => (wk'.pc \in {"wait", "sleep"} /\ wk'.remaining = Interval(wk.kind))]_vars
    /\ [][(wk.pc \in {"wait", "sleep"} /\ wk'.pc = "top")
             => (wk.remaining = 0 \/ (wk.pc = "wait" /\ wk.stop_event))]_vars

\* a strategy request as Python compares it: the name and the dict, which
\* is the set of its items whatever their order
Request(dec) ==
    [name |-> Get(dec, "strategy_name", <<>>), params |-> Range(Get(dec, "params", <<>>))]

Requests(batch) == {Request(batch[i]) : i \in {j \in 1..Len(batch) : IsStrategy(batch[j])}}

FirstPartitionOver ==
    cycle_count = 1 /\ cyc = "partition" /\ di = Len(decisions) /\ mpc["main"] = "idle"

\* C39: make_strategy_id gives requests that differ in the name or in any
\* parameter key or value different identifiers, so no two distinct
\* requests of a batch are taken for one: after the partition loop of the
\* first cycle there is one identity, and one registered worker, per
\* distinct request of the batch.
C39_DistinctRequestsDistinctIds ==
    FirstPartitionOver =>
        /\ Len(new_strategy_ids) = Cardinality(Requests(decisions))
        /\ Cardinality(DOMAIN active_strategies) = Cardinality(Requests(decisions))

\* a YES has just been handled (the clock stood still meanwhile)
YesHandled ==
    /\ chat'.last = "yes" /\ chat' # chat
    /\ chat'.jobs = chat.jobs /\ chat'.since = chat.since

\* the YES comes less than thirty seconds after the most recent /stop, and
\* is the first one since
YesInTime == chat.since \in 0..(ConfirmWindow - 1) /\ ~chat.answered

\* no /stop is pending, or the most recent one is more than thirty seconds old
YesTooLate == chat.since = -1 \/ chat.since > ConfirmWindow \/ chat.answered

\* C40: with an exit handler registered, a YES sent within thirty seconds
\* after the most recent /stop calls the handler (once: a further YES does
\* not call it again), whatever /stop and YES messages came before; a YES
\* with no /stop pending, or more than thirty seconds after the most
\* recent /stop, does not call it.
C40_YesWithinWindowStops ==
    /\ [][(YesHandled /\ chat.handle_exit # "None" /\ YesInTime) => chat'.invoked]_vars
    /\ [][(YesHandled /\ YesTooLate) => ~chat'.invoked]_vars
====
